---------------------------- MODULE Spec2Model ----------------------------
(***************************************************************************)
(* DuckyOS FAT12 loader: the hosted reader (fat12read, a C program run on  *)
(* a disk image file) and the boot sector (boot.asm, run by the BIOS on    *)
(* the same kind of medium).  Memory that is filled from the medium is     *)
(* kept as a map from sector-sized slots to the LBA whose bytes it holds;  *)
(* the bytes themselves are read back through DiskByte, so every decode    *)
(* in the model works on the on-disk byte layout.                          *)
(***************************************************************************)
EXTENDS Integers, Sequences, FiniteSets, TLC

(***************************************************************************)
(* Machine arithmetic                                                      *)
(***************************************************************************)
W8  == 2^8
W16 == 2^16
\* A uint32_t is kept as the int32 with the same bits: a value of 2^31 or
\* more appears as a negative number.  Sums and products of such numbers are
\* exact modulo 2^32; none in this model leaves the int32 range.

Lo8(w) == w % W8
Hi8(w) == (w \div W8) % W8
\* 16-bit little-endian word made of two consecutive bytes
Word16(b0, b1) == b0 + W8 * b1
\* two's complement reading of a 16-bit register (jl is a signed jump)
Signed16(w) == IF w >= 2^15 THEN w - W16 ELSE w

(***************************************************************************)
(* Program constants                                                       *)
(***************************************************************************)
EOC_MIN == 4088            \* 0x0FF8
MASK12 == 4096             \* "& 0x0FFF" is "% 4096"
DIR_ENTRY_SIZE == 32       \* sizeof(DirectoryEntry)
NAME_LEN == 11
OFF_FIRST_CLUSTER == 26    \* [di + 26]
OFF_SIZE == 28
RETRY_COUNT == 3           \* mov di, 3
DATA_LBA_BIAS == 31        \* add ax, 31
KERNEL_LOAD_SEGMENT == 8192  \* 0x2000
KERNEL_LOAD_OFFSET == 0

\* the BIOS parameter block assembled into the boot sector
bdb_bytes_per_sector == 512
bdb_sectors_per_cluster == 1
bdb_reserved_sectors == 1
bdb_fat_count == 2
bdb_dir_entries_count == 224
bdb_total_sectors == 2880
bdb_sectors_per_fat == 9

StdBpb ==
  [ BytesPerSector |-> bdb_bytes_per_sector,
    SectorsPerCluster |-> bdb_sectors_per_cluster,
    ReservedSectors |-> bdb_reserved_sectors,
    FatCount |-> bdb_fat_count,
    DirEntryCount |-> bdb_dir_entries_count,
    TotalSectors |-> bdb_total_sectors,
    SectorsPerFat |-> bdb_sectors_per_fat ]

\* "KERNEL  BIN"
file_kernel_bin == <<75, 69, 82, 78, 69, 76, 32, 32, 66, 73, 78>>


(***************************************************************************)
(* The medium.  A disk is a record                                         *)
(*   bpb  the BIOS parameter block stored in sector 0                      *)
(*   dir  root-directory slots that are not zero-filled (index -> entry)   *)
(*   fat  the 12-bit entries of the first FAT (index -> value), the rest   *)
(*        of the table being zero                                          *)
(* laid out as FAT12 lays it out: reserved sectors, the FAT copies, the    *)
(* root directory rounded up to whole sectors, then the data area.         *)
(***************************************************************************)
FmtRootLba(bpb) == bpb.ReservedSectors + bpb.FatCount * bpb.SectorsPerFat

FmtRootSectors(bpb) ==
  (bpb.DirEntryCount * DIR_ENTRY_SIZE + bpb.BytesPerSector - 1) \div bpb.BytesPerSector

FmtDataLba(bpb) == FmtRootLba(bpb) + FmtRootSectors(bpb)

\* first sector of a cluster on the medium
FmtClusterLba(bpb, cluster) == FmtDataLba(bpb) + (cluster - 2) * bpb.SectorsPerCluster

DirEntry(name, first, size) == [Name |-> name, FirstClusterLow |-> first, Size |-> size]

ZeroName == [j \in 1..NAME_LEN |-> 0]
ZeroEntry == DirEntry(ZeroName, 0, 0)

DirSlot(dir, i) == IF i \in DOMAIN dir THEN dir[i] ELSE ZeroEntry
FatSlot(fat, i) == IF i \in DOMAIN fat THEN fat[i] ELSE 0

\* byte `off` of the packed FAT: entries 2p and 2p+1 share bytes 3p..3p+2
FatImageByte(fat, off) ==
  LET p  == off \div 3
      e0 == FatSlot(fat, 2 * p)
      e1 == FatSlot(fat, 2 * p + 1)
  IN  CASE off % 3 = 0 -> e0 % W8
        [] off % 3 = 1 -> (e0 \div W8) + (e1 % 16) * 16
        [] OTHER       -> e1 \div 16

\* byte `off` of the root directory region: 32-byte entries, name first,
\* FirstClusterLow at 26, Size at 28, both little-endian
DirImageByte(dir, off) ==
  LET e == DirSlot(dir, off \div DIR_ENTRY_SIZE)
      f == off % DIR_ENTRY_SIZE
  IN  CASE f < NAME_LEN -> e.Name[f + 1]
        [] f = OFF_FIRST_CLUSTER -> Lo8(e.FirstClusterLow)
        [] f = OFF_FIRST_CLUSTER + 1 -> Hi8(e.FirstClusterLow)
        [] f >= OFF_SIZE -> (e.Size \div (W8 ^ (f - OFF_SIZE))) % W8
        [] OTHER -> 0

\* content of a sector outside the FAT and the root directory
DataByte(lba, k) == (lba * 7 + k) % W8

\* byte k of sector lba of the medium
DiskByte(d, lba, k) ==
  LET bpb   == d.bpb
      fat0  == bpb.ReservedSectors
      root0 == FmtRootLba(bpb)
      data0 == FmtDataLba(bpb)
  IN  CASE lba >= fat0 /\ lba < root0 ->
             FatImageByte(d.fat, ((lba - fat0) % bpb.SectorsPerFat) * bpb.BytesPerSector + k)
        [] lba >= root0 /\ lba < data0 ->
             DirImageByte(d.dir, (lba - root0) * bpb.BytesPerSector + k)
        [] OTHER -> DataByte(lba, k)

(***************************************************************************)
(* Memory filled from the medium: slot s (one sector of bytes) -> the LBA  *)
(* it was read from.  A read of `count` sectors fills consecutive slots.   *)
(***************************************************************************)
NoMem == [s \in {} |-> 0]

MemLoad_fresh(m, slot0, lba, count) ==
  [s \in slot0 .. (slot0 + count - 1) |-> lba + (s - slot0)]

MemLoad(m, slot0, lba, count) ==
  [s \in (DOMAIN m) \cup (slot0 .. (slot0 + count - 1)) |->
     IF s >= slot0 /\ s < slot0 + count THEN lba + (s - slot0) ELSE m[s]]

\* bytes that memory outside any loaded slot may hold
StrayBytes == {0, 255}

\* the values byte `off` of a buffer of sector size bps can have
MemBytes(d, m, bps, off) ==
  IF (off \div bps) \in DOMAIN m
  THEN {DiskByte(d, m[off \div bps], off % bps)}
  ELSE StrayBytes

(***************************************************************************)
(* FAT12 entry decode, as each program computes it                         *)
(***************************************************************************)
\* fat12read: fatIndex = currentCluster * 3 / 2
FatIndex(currentCluster) == (currentCluster * 3) \div 2

\* a variant of the C lookup that takes the high byte for an odd cluster
NextClusterC_byte(b0, b1, currentCluster) ==
  IF currentCluster % 2 = 0
  THEN Word16(b0, b1) % 4096
  ELSE Word16(b0, b1) \div W8

\* fat12read: the 16-bit word at g_Fat + fatIndex, masked or shifted
NextClusterC(b0, b1, currentCluster) ==
  IF currentCluster % 2 = 0
  THEN Word16(b0, b1) % MASK12
  ELSE Word16(b0, b1) \div 16

\* boot.asm: mul cx (DX:AX = AX * CX)
AsmMul(ax, cx) == [ax |-> (ax * cx) % W16, dx |-> (ax * cx) \div W16]

\* boot.asm: div cx (AX = DX:AX / CX, DX = remainder; #DE when the quotient
\* does not fit 16 bits)
AsmDiv(dx, ax, cx) ==
  LET n == dx * W16 + ax
  IN  [fault |-> (n \div cx) >= W16, ax |-> (n \div cx) % W16, dx |-> n % cx]

\* boot.asm: AX = byte offset of the cluster's entry, DX = cluster mod 2
AsmFatOffset(cluster) ==
  LET m == AsmMul(cluster, 3) IN AsmDiv(m.dx, m.ax, 2)

\* a variant of the assembly lookup that masks the word for an odd cluster too
NextClusterAsm_mask(b0, b1, dx) == Word16(b0, b1) % 4096

\* boot.asm: .odd shifts the word right by 4, .even masks it
NextClusterAsm(b0, b1, dx) ==
  IF dx = 0 THEN Word16(b0, b1) % MASK12 ELSE Word16(b0, b1) \div 16

(***************************************************************************)
(* State                                                                   *)
(***************************************************************************)
VARIABLES
  ctx,                \* "hosted" (fat12read) or "boot" (boot.asm)
  disk,               \* the medium
  dec,                \* the FAT entry decode run on its own: table bytes, index, results
  calc,               \* the geometry arithmetic run on its own: BPB fields, inputs, results
  pc,                 \* position of the running program
  ioTick,             \* flips at every sector read issued to the medium
  ioLast,             \* the last sector read issued: lba, count, ok
  clusterRead,        \* a cluster read was issued by the chain walker
  \* fat12read
  argc, name11, g_BootSector, g_Fat, g_RootDirectory, g_RootDirectoryEnd,
  fileEntry, fileSize, mainBuffer, currentCluster, ok, outputBuffer,
  overrun, exitCode, stdoutBytes,
  stdout,             \* what was written to standard output, one element per call
  \* boot.asm
  bdb_sectors_per_track, bdb_heads, ebr_drive_number, message,
  buffer,             \* the scratch area the root directory and the FAT are read into
  kernel_cluster, ES, BX,
  mem,                \* memory written through ES:BX during the load loop
  dr,                 \* the disk_read call in progress: AX, CL, destination, caller
  di,                 \* disk_read's retry counter
  \* vga.c
  vga_x, vga_y, vga_color,
  vga_cells,          \* the cells of vga_mem the last call wrote
  \* keyboard.c
  rl,                 \* a keyboard_readline call: max_length, count, the caller's buffer
  kbd_driver,         \* which keyboard driver is linked into the kernel
  keyboard_buffer,    \* `buffer`: the bytes stored so far, by index
  buffer_start, buffer_end, buffer_size, echo_enabled,
  last_interrupt_time, interrupt_in_progress, debounce_time, keyboard_state,
  eflags_if,          \* the CPU's interrupt flag
  pic_in_service,     \* IRQ1 was delivered and no EOI has been sent for it
  getchar_ret,        \* what the last keyboard_getchar call returned
  kbd_pending,        \* the characters the handler stored that no call has returned yet
  presses,            \* keyboard interrupts delivered so far
  \* kernel.c
  cursor_x, cursor_y,
  video_cells         \* the cells of video_memory the last putchar call wrote

vgaVars == <<vga_x, vga_y, vga_color, vga_cells>>
ringVars == <<kbd_driver, keyboard_buffer, buffer_start, buffer_end, buffer_size, echo_enabled,
              last_interrupt_time, interrupt_in_progress, debounce_time, keyboard_state,
              eflags_if, pic_in_service, getchar_ret, kbd_pending, presses>>
consoleVars == <<cursor_x, cursor_y, video_cells>>
kbdVars == <<rl, ringVars, consoleVars>>
kernelVars == <<vgaVars, kbdVars>>
envVars == <<ctx, disk, dec, calc, kernelVars>>
ioVars == <<ioTick, ioLast, clusterRead>>
hostedVars == <<argc, name11, g_BootSector, g_Fat, g_RootDirectory, g_RootDirectoryEnd,
                fileEntry, fileSize, mainBuffer, currentCluster, ok, outputBuffer,
                overrun, exitCode, stdoutBytes, stdout>>
bootVars == <<bdb_sectors_per_track, bdb_heads, ebr_drive_number, message, buffer,
              kernel_cluster, ES, BX, mem, dr, di>>
vars == <<envVars, pc, ioVars, hostedVars, bootVars>>

NoIo == [lba |-> -1, count |-> 0, ok |-> FALSE]
NullBuf == [size |-> -1, m |-> NoMem]
NoBpb == [BytesPerSector |-> 0, SectorsPerCluster |-> 0, ReservedSectors |-> 0,
          FatCount |-> 0, DirEntryCount |-> 0, TotalSectors |-> 0, SectorsPerFat |-> 0]
NULL == -1
NoDecode == [base |-> 0, bytes |-> << >>, i |-> 0, c |-> NULL, asm |-> NULL, fault |-> FALSE]
NoCalc == [kind |-> "none", bpb |-> NoBpb, cluster |-> 0, lba |-> 0, spt |-> 0, heads |-> 0,
           dx |-> 0, sectorsC |-> NULL, sectorsAsm |-> NULL, rootEndC |-> NULL,
           lbaC |-> NULL, lbaAsm |-> NULL, chs |-> [ch |-> 0, cl |-> 0, dh |-> 0, dl |-> 0]]

(***************************************************************************)
(* fat12read                                                               *)
(***************************************************************************)
\* the sector a seek to lba * BytesPerSector (32-bit product) lands on
SeekSector(bps, lba) == (lba * bps) \div bps

\* whether `count` whole sectors lie at and after that offset in the image;
\* an offset of 2^31 or more is past the end of every image here
ImageHas(d, bps, lba, count) ==
  /\ lba * bps >= 0
  /\ lba * bps + count * bps <= d.bpb.TotalSectors * d.bpb.BytesPerSector

\* a variant of readSectors that accepts a short read
ReadSectorsOutcomes_short(d, bps, lba, count) == {TRUE, FALSE}

\* readSectors: the outcomes of one call; the medium may also fail the read
ReadSectorsOutcomes(d, bps, lba, count) ==
  IF ImageHas(d, bps, lba, count) THEN {TRUE, FALSE} ELSE {FALSE}

Issue(lba, count, res) ==
  /\ ioTick' = ~ioTick
  /\ ioLast' = [lba |-> lba, count |-> count, ok |-> res]

Exit(code) ==
  /\ pc' = "h_exit"
  /\ exitCode' = code

\* main: argument count check
HostedArgs ==
  /\ pc = "h_args"
  /\ IF argc < 3 THEN Exit(1) ELSE pc' = "h_open" /\ UNCHANGED exitCode
  /\ UNCHANGED <<envVars, bootVars, ioVars, argc, name11, g_BootSector, g_Fat, g_RootDirectory,
                 g_RootDirectoryEnd, fileEntry, fileSize, mainBuffer, currentCluster,
                 ok, outputBuffer, overrun, stdoutBytes, stdout>>

\* main: fopen
HostedOpen ==
  /\ pc = "h_open"
  /\ \E opened \in BOOLEAN :
       IF opened THEN pc' = "h_boot" /\ UNCHANGED exitCode ELSE Exit(2)
  /\ UNCHANGED <<envVars, bootVars, ioVars, argc, name11, g_BootSector, g_Fat, g_RootDirectory,
                 g_RootDirectoryEnd, fileEntry, fileSize, mainBuffer, currentCluster,
                 ok, outputBuffer, overrun, stdoutBytes, stdout>>

\* main step 1: readBootSector
HostedReadBootSector ==
  /\ pc = "h_boot"
  /\ \E res \in BOOLEAN :
       IF res
       THEN /\ g_BootSector' = disk.bpb
            /\ pc' = "h_fat"
            /\ UNCHANGED exitCode
       ELSE /\ Exit(3)
            /\ UNCHANGED g_BootSector
  /\ UNCHANGED <<envVars, bootVars, ioVars, argc, name11, g_Fat, g_RootDirectory,
                 g_RootDirectoryEnd, fileEntry, fileSize, mainBuffer, currentCluster,
                 ok, outputBuffer, overrun, stdoutBytes, stdout>>

\* a variant of step 2 in which main does not test readFat's result
HostedReadFat_unchecked ==
  /\ pc = "h_fat"
  /\ LET fatSizeBytes == g_BootSector.SectorsPerFat * g_BootSector.BytesPerSector
         lba == g_BootSector.ReservedSectors
         count == g_BootSector.SectorsPerFat
     IN  \E res \in ReadSectorsOutcomes(disk, g_BootSector.BytesPerSector, lba, count) :
           /\ Issue(lba, count, res)
           /\ UNCHANGED clusterRead
           /\ g_Fat' = [size |-> fatSizeBytes,
                        m |-> IF res
                              THEN MemLoad(NoMem, 0,
                                     SeekSector(g_BootSector.BytesPerSector, lba), count)
                              ELSE NoMem]
           /\ pc' = "h_root"
           /\ UNCHANGED exitCode
  /\ UNCHANGED <<envVars, bootVars, argc, name11, g_BootSector, g_RootDirectory,
                 g_RootDirectoryEnd, fileEntry, fileSize, mainBuffer, currentCluster,
                 ok, outputBuffer, overrun, stdoutBytes, stdout>>

\* main step 2: readFat
HostedReadFat ==
  /\ pc = "h_fat"
  /\ LET fatSizeBytes == g_BootSector.SectorsPerFat * g_BootSector.BytesPerSector
         lba == g_BootSector.ReservedSectors
         count == g_BootSector.SectorsPerFat
     IN  \/ \* malloc fails
            /\ g_Fat' = NullBuf
            /\ Exit(4)
            /\ UNCHANGED ioVars
         \/ \E res \in ReadSectorsOutcomes(disk, g_BootSector.BytesPerSector, lba, count) :
              /\ Issue(lba, count, res)
              /\ UNCHANGED clusterRead
              /\ IF res
                 THEN /\ g_Fat' = [size |-> fatSizeBytes,
                                   m |-> MemLoad(NoMem, 0,
                                           SeekSector(g_BootSector.BytesPerSector, lba), count)]
                      /\ pc' = "h_root"
                      /\ UNCHANGED exitCode
                 ELSE /\ g_Fat' = [size |-> fatSizeBytes, m |-> NoMem]
                      /\ Exit(4)
  /\ UNCHANGED <<envVars, bootVars, argc, name11, g_BootSector, g_RootDirectory,
                 g_RootDirectoryEnd, fileEntry, fileSize, mainBuffer, currentCluster,
                 ok, outputBuffer, overrun, stdoutBytes, stdout>>

\* readRootDirectory: sectors = rootDirByteSize / BytesPerSector, rounded up
RootDirSectorsC(bs) ==
  LET rootDirByteSize == bs.DirEntryCount * DIR_ENTRY_SIZE
      sectors == rootDirByteSize \div bs.BytesPerSector
  IN  IF rootDirByteSize % bs.BytesPerSector # 0 THEN sectors + 1 ELSE sectors

\* main step 3: readRootDirectory
HostedReadRootDirectory ==
  /\ pc = "h_root"
  /\ LET rootDirLba == g_BootSector.ReservedSectors
                       + g_BootSector.SectorsPerFat * g_BootSector.FatCount
         sectors == RootDirSectorsC(g_BootSector)
         bps == g_BootSector.BytesPerSector
     IN  /\ g_RootDirectoryEnd' = rootDirLba + sectors
         /\ \/ \* malloc fails
               /\ g_RootDirectory' = NullBuf
               /\ Exit(5)
               /\ UNCHANGED ioVars
            \/ \E res \in ReadSectorsOutcomes(disk, bps, rootDirLba, sectors) :
                 /\ Issue(rootDirLba, sectors, res)
                 /\ UNCHANGED clusterRead
                 /\ IF res
                    THEN /\ g_RootDirectory' =
                              [size |-> sectors * bps,
                               m |-> MemLoad(NoMem, 0, SeekSector(bps, rootDirLba), sectors)]
                         /\ pc' = "h_find"
                         /\ UNCHANGED exitCode
                    ELSE /\ g_RootDirectory' = [size |-> sectors * bps, m |-> NoMem]
                         /\ Exit(5)
  /\ UNCHANGED <<envVars, bootVars, argc, name11, g_BootSector, g_Fat,
                 fileEntry, fileSize, mainBuffer, currentCluster,
                 ok, outputBuffer, overrun, stdoutBytes, stdout>>

\* byte `off` of a buffer whose slot is loaded
MemByte(d, m, bps, off) == DiskByte(d, m[off \div bps], off % bps)

\* a variant of the name comparison that stops one byte early
NameEqualC_short(d, name, root, bps, i) ==
  \A j \in 0..9 :
     name[j + 1] = DiskByte(d, root.m[(i * 32 + j) \div bps], (i * 32 + j) % bps)

\* memcmp(name11, g_RootDirectory[i].Name, 11) == 0
NameEqualC(d, name, root, bps, i) ==
  \A j \in 0..(NAME_LEN - 1) :
     name[j + 1] = MemByte(d, root.m, bps, i * DIR_ENTRY_SIZE + j)

\* the least element of a non-empty set of indices
First(S) == CHOOSE i \in S : \A j \in S : i <= j

\* findFile: the for loop runs i = 0, 1, ... while i < DirEntryCount and
\* returns at the first i whose name compares equal; NULL when none does
findFile(d, name, root, bs) ==
  LET hits == { i \in 0..(bs.DirEntryCount - 1) :
                  NameEqualC(d, name, root, bs.BytesPerSector, i) }
  IN  IF hits = {} THEN NULL ELSE First(hits)

\* fileEntry->FirstClusterLow
EntryFirstCluster(d, root, bps, i) ==
  Word16(MemByte(d, root.m, bps, i * DIR_ENTRY_SIZE + OFF_FIRST_CLUSTER),
         MemByte(d, root.m, bps, i * DIR_ENTRY_SIZE + OFF_FIRST_CLUSTER + 1))

\* fileEntry->Size
EntrySize(d, root, bps, i) ==
  LET b(k) == MemByte(d, root.m, bps, i * DIR_ENTRY_SIZE + OFF_SIZE + k)
  IN  b(0) + W8 * b(1) + W16 * b(2) + W16 * W8 * b(3)

\* main step 4: findFile
HostedFindFile ==
  /\ pc = "h_find"
  /\ fileEntry' = findFile(disk, name11, g_RootDirectory, g_BootSector)
  /\ IF fileEntry' = NULL THEN Exit(6) ELSE pc' = "h_alloc" /\ UNCHANGED exitCode
  /\ UNCHANGED <<envVars, bootVars, ioVars, argc, name11, g_BootSector, g_Fat, g_RootDirectory,
                 g_RootDirectoryEnd, fileSize, mainBuffer, currentCluster,
                 ok, outputBuffer, overrun, stdoutBytes, stdout>>

\* main step 5: allocate and clear the file buffer, then enter readFile
HostedAllocBuffer ==
  /\ pc = "h_alloc"
  /\ LET bps == g_BootSector.BytesPerSector
         size == EntrySize(disk, g_RootDirectory, bps, fileEntry)
     IN  /\ fileSize' = size
         /\ \/ \* malloc fails
               /\ Exit(7)
               /\ UNCHANGED <<mainBuffer, currentCluster, ok, outputBuffer>>
            \/ /\ mainBuffer' = [size |-> size + bps, m |-> NoMem]
               /\ ok' = TRUE
               /\ currentCluster' = EntryFirstCluster(disk, g_RootDirectory, bps, fileEntry)
               /\ outputBuffer' = 0
               /\ pc' = "h_readFile"
               /\ UNCHANGED exitCode
  /\ UNCHANGED <<envVars, bootVars, ioVars, argc, name11, g_BootSector, g_Fat, g_RootDirectory,
                 g_RootDirectoryEnd, fileEntry, overrun, stdoutBytes, stdout>>

\* bytes past the end of the file buffer that can be written before the
\* process leaves its mapped memory
HeapSlack == 1024

\* a variant of the mapping that takes cluster 1 for the first data cluster
ClusterLbaC_from1(rootDirectoryEnd, bs, cluster) ==
  rootDirectoryEnd + (cluster - 1) * bs.SectorsPerCluster

\* readFile: lba of currentCluster (32-bit unsigned arithmetic)
ClusterLbaC(rootDirectoryEnd, bs, cluster) ==
  rootDirectoryEnd + (cluster - 2) * bs.SectorsPerCluster

\* readFile: the values the FAT lookup for currentCluster can yield; bytes
\* outside the FAT buffer are whatever lies behind it
NextClustersC(d, fat, bps, cluster) ==
  LET fatIndex == FatIndex(cluster)
      in0 == fatIndex < fat.size
      in1 == fatIndex + 1 < fat.size
  IN  { NextClusterC(b0, b1, cluster) :
          b0 \in (IF in0 THEN MemBytes(d, fat.m, bps, fatIndex) ELSE StrayBytes),
          b1 \in (IF in1 THEN MemBytes(d, fat.m, bps, fatIndex + 1) ELSE StrayBytes) }

\* a variant of the loop test that does not look at the read's result
WalkContinuesC_anyway(res, next) == next < EOC_MIN

\* readFile: the loop test, "while (ok && currentCluster < 0x0FF8)"
WalkContinuesC(res, next) == res /\ next < EOC_MIN

\* main step 6, readFile: one pass of the do-while loop
HostedReadFileStep ==
  /\ pc = "h_readFile"
  /\ LET bps == g_BootSector.BytesPerSector
         spc == g_BootSector.SectorsPerCluster
         lba == ClusterLbaC(g_RootDirectoryEnd, g_BootSector, currentCluster)
         clusterBytes == spc * bps
     IN  IF outputBuffer + clusterBytes > mainBuffer.size + HeapSlack
         THEN \* the write leaves the process's memory
              /\ pc' = "h_crash"
              /\ UNCHANGED <<ioVars, mainBuffer, currentCluster, ok, outputBuffer, overrun>>
         ELSE \E res \in (IF ok THEN ReadSectorsOutcomes(disk, bps, lba, spc) ELSE {FALSE}),
                 next \in NextClustersC(disk, g_Fat, bps, currentCluster) :
                /\ IF ok
                   THEN Issue(lba, spc, res) /\ clusterRead' = TRUE
                   ELSE UNCHANGED ioVars
                /\ ok' = res
                /\ mainBuffer' =
                     IF res
                     THEN [mainBuffer EXCEPT
                             !.m = MemLoad(@, outputBuffer \div bps, SeekSector(bps, lba), spc)]
                     ELSE mainBuffer
                /\ overrun' = (overrun \/ (res /\ outputBuffer + clusterBytes > mainBuffer.size))
                /\ outputBuffer' = outputBuffer + clusterBytes
                /\ currentCluster' = next
                /\ pc' = IF WalkContinuesC(res, next) THEN "h_readFile" ELSE "h_ret"
  /\ UNCHANGED <<envVars, bootVars, argc, name11, g_BootSector, g_Fat, g_RootDirectory,
                 g_RootDirectoryEnd, fileEntry, fileSize, exitCode, stdoutBytes, stdout>>

\* main: the test of readFile's result
HostedReadFileReturn ==
  /\ pc = "h_ret"
  /\ IF ~ok THEN Exit(8) ELSE pc' = "h_print" /\ UNCHANGED exitCode
  /\ UNCHANGED <<envVars, bootVars, ioVars, argc, name11, g_BootSector, g_Fat, g_RootDirectory,
                 g_RootDirectoryEnd, fileEntry, fileSize, mainBuffer, currentCluster,
                 ok, outputBuffer, overrun, stdoutBytes, stdout>>

\* printf("%02X"): the digits of a hexadecimal number, upper case
HexDigits == <<48, 49, 50, 51, 52, 53, 54, 55, 56, 57, 65, 66, 67, 68, 69, 70>>

\* isprint in the "C" locale (main never calls setlocale)
isprint(c) == c >= 32 /\ c <= 126

\* byte i of main's buffer: zero (memset) where no cluster was read to
BufferByte(d, buf, bps, i) ==
  IF (i \div bps) \in DOMAIN buf.m THEN DiskByte(d, buf.m[i \div bps], i % bps) ELSE 0

\* one pass of the print loop: fputc(b) or printf("<%02X>", b)
PrintByte(b) ==
  IF isprint(b) THEN <<b>>
  ELSE <<60, HexDigits[(b \div 16) + 1], HexDigits[(b % 16) + 1], 62>>

\* the calls of the print loop and the printf("\n") after it
PrintedDump(d, buf, bps, size) ==
  [k \in 1..(size + 1) |->
     IF k <= size THEN PrintByte(BufferByte(d, buf, bps, k - 1)) ELSE <<10>>]

\* main step 7: dump fileSize bytes and a newline, clean up, return 0; on a
\* heap that readFile wrote past the buffer, free(buffer) can end the
\* process after the dump was written
HostedPrint ==
  /\ pc = "h_print"
  /\ stdoutBytes' = fileSize
  /\ stdout' = PrintedDump(disk, mainBuffer, g_BootSector.BytesPerSector, fileSize)
  /\ \/ Exit(0)
     \/ /\ overrun
        /\ pc' = "h_crash"
        /\ UNCHANGED exitCode
  /\ UNCHANGED <<envVars, bootVars, ioVars, argc, name11, g_BootSector, g_Fat, g_RootDirectory,
                 g_RootDirectoryEnd, fileEntry, fileSize, mainBuffer, currentCluster,
                 ok, outputBuffer, overrun>>

\* a heap that readFile wrote past its buffer can end the process at any
\* later step
HostedCrash ==
  /\ pc \in {"h_readFile", "h_ret", "h_print"}
  /\ overrun
  /\ pc' = "h_crash"
  /\ UNCHANGED <<envVars, bootVars, ioVars, hostedVars>>

(***************************************************************************)
(* boot.asm                                                                *)
(***************************************************************************)
\* the geometry fields as assembled
ASM_SECTORS_PER_TRACK == 18
ASM_HEADS == 2

\* no disk_read call yet; `attempts` counts the INT 13h reads of the call,
\* `resets` the controller resets that succeeded
NoCall == [lba |-> 0, count |-> 0, dest |-> "none", ret |-> "none",
           attempts |-> 0, resets |-> 0]

\* a variant of lba_to_chs that leaves the cylinder's top two bits out of CL
lba_to_chs_low8(lba, spt, heads) ==
  LET q1 == lba \div spt
      q2 == q1 \div heads
  IN  [ch |-> Lo8(q2), cl |-> Lo8((lba % spt) + 1), dh |-> Lo8(q1 % heads)]

\* lba_to_chs: the register values handed to INT 13h.  The sector number is
\* at most 63 (bdb_sectors_per_track was masked with 0x3F), so "or cl, ah"
\* adds the two cylinder bits above it.
lba_to_chs(lba, spt, heads) ==
  LET q1 == lba \div spt
      cx == (lba % spt) + 1
      q2 == q1 \div heads
      dx == q1 % heads
      ah == (Hi8(q2) * 64) % W8
  IN  [ch |-> Lo8(q2), cl |-> Lo8(cx) + ah, dh |-> Lo8(dx)]

\* the sector of the medium a CHS address names, -1 when there is none
BiosSector(d, chs) ==
  LET cyl == chs.ch + W8 * (chs.cl \div 64)
      sec == chs.cl % 64
  IN  IF sec >= 1 /\ sec <= d.geom.spt /\ chs.dh < d.geom.heads
      THEN (cyl * d.geom.heads + chs.dh) * d.geom.spt + sec - 1
      ELSE -1

\* INT 13h AH=02h: the outcomes of one attempt; the drive may also fail it
BiosReadOutcomes(d, chs, count) ==
  LET lba == BiosSector(d, chs)
  IN  IF lba >= 0 /\ lba + count <= d.bpb.TotalSectors /\ count >= 1
      THEN {TRUE, FALSE} ELSE {FALSE}

\* INT 13h AH=08h: CL = sectors per track below the two high cylinder bits,
\* DH = the highest head number
BiosGeometry(d) ==
  LET maxCyl == (d.bpb.TotalSectors \div (d.geom.spt * d.geom.heads)) - 1
  IN  [cl |-> d.geom.spt + 64 * (Hi8(maxCyl) % 4), dh |-> d.geom.heads - 1]

\* a variant of start without the "inc dh" that turns the highest head number
\* into the number of heads
BootStart_noinc ==
  /\ pc = "b_start"
  /\ ebr_drive_number' = disk.drive
  /\ message' = "loading"
  /\ \/ /\ pc' = "b_floppy_error"
        /\ UNCHANGED <<bdb_sectors_per_track, bdb_heads>>
     \/ LET g == BiosGeometry(disk)
        IN  /\ bdb_sectors_per_track' = g.cl % 64
            /\ bdb_heads' = (bdb_heads \div W8) * W8 + (g.dh % W8)
            /\ pc' = "b_rootdir"
  /\ UNCHANGED <<envVars, hostedVars, ioVars, buffer, kernel_cluster, ES, BX, mem, dr, di>>

\* start: segments, stack, drive number (DL as the BIOS passes it),
\* "Loading...", BIOS geometry
BootStart ==
  /\ pc = "b_start"
  /\ ebr_drive_number' = disk.drive
  /\ message' = "loading"
  /\ \/ \* INT 13h AH=08h sets CF
        /\ pc' = "b_floppy_error"
        /\ UNCHANGED <<bdb_sectors_per_track, bdb_heads>>
     \/ LET g == BiosGeometry(disk)
        IN  /\ bdb_sectors_per_track' = g.cl % 64
            \* "mov [bdb_heads], dh" stores the low byte of the word
            /\ bdb_heads' = (bdb_heads \div W8) * W8 + ((g.dh + 1) % W8)
            /\ pc' = "b_rootdir"
  /\ UNCHANGED <<envVars, hostedVars, ioVars, buffer, kernel_cluster, ES, BX, mem, dr, di>>

\* root directory size in sectors: shl ax, 5 / div word [bdb_bytes_per_sector]
RootDirSectorsAsm(entries, bps) ==
  LET ax == (entries * DIR_ENTRY_SIZE) % W16
  IN  IF ax % bps # 0 THEN ((ax \div bps) + 1) % W16 ELSE ax \div bps

\* a variant of the entry to disk_read that allows two attempts
CallDiskRead_two(lba, count, dest, ret) ==
  /\ dr' = [lba |-> lba, count |-> count, dest |-> dest, ret |-> ret,
            attempts |-> 0, resets |-> 0]
  /\ di' = 2
  /\ pc' = "b_int13"

\* disk_read is entered: AX = lba, CL = count, the retry counter is set
CallDiskRead(lba, count, dest, ret) ==
  /\ dr' = [lba |-> lba, count |-> count, dest |-> dest, ret |-> ret,
            attempts |-> 0, resets |-> 0]
  /\ di' = RETRY_COUNT
  /\ pc' = "b_int13"

\* steps 4-6: locate the root directory and read it into `buffer`
BootReadRootDir ==
  /\ pc = "b_rootdir"
  /\ LET lba == ((bdb_sectors_per_fat * bdb_fat_count) + bdb_reserved_sectors) % W16
         cl  == Lo8(RootDirSectorsAsm(bdb_dir_entries_count, bdb_bytes_per_sector))
     IN  CallDiskRead(lba, cl, "buffer", "b_search")
  /\ UNCHANGED <<envVars, hostedVars, ioVars, bdb_sectors_per_track, bdb_heads,
                 ebr_drive_number, message, buffer, kernel_cluster, ES, BX, mem>>

\* disk_read .retry: one INT 13h AH=02h; on success the sectors land at the
\* destination and disk_read returns to its caller
DiskReadAttempt ==
  /\ pc = "b_int13"
  /\ LET chs == lba_to_chs(dr.lba, bdb_sectors_per_track, bdb_heads)
         lba == BiosSector(disk, chs)
     IN  \E res \in BiosReadOutcomes(disk, chs, dr.count) :
           /\ Issue(lba, dr.count, res)
           /\ clusterRead' = (clusterRead \/ dr.dest = "kernel")
           /\ dr' = [dr EXCEPT !.attempts = @ + 1]
           /\ IF res
              THEN /\ pc' = dr.ret
                   /\ IF dr.dest = "buffer"
                      THEN /\ buffer' = MemLoad(buffer, 0, lba, dr.count)
                           /\ UNCHANGED mem
                      ELSE /\ mem' = MemLoad(mem, (ES * 16 + BX) \div bdb_bytes_per_sector,
                                             lba, dr.count)
                           /\ UNCHANGED buffer
              ELSE /\ pc' = "b_reset"
                   /\ UNCHANGED <<buffer, mem>>
  /\ UNCHANGED <<envVars, hostedVars, bdb_sectors_per_track, bdb_heads,
                 ebr_drive_number, message, kernel_cluster, ES, BX, di>>

\* a variant of disk_read that returns to its caller when the retries are
\* used up
DiskReset_return ==
  /\ pc = "b_reset"
  /\ \/ /\ pc' = "b_floppy_error"
        /\ UNCHANGED <<di, dr>>
     \/ /\ di' = di - 1
        /\ dr' = [dr EXCEPT !.resets = @ + 1]
        /\ pc' = IF di' # 0 THEN "b_int13" ELSE dr.ret
  /\ UNCHANGED <<envVars, hostedVars, ioVars, bdb_sectors_per_track, bdb_heads,
                 ebr_drive_number, message, buffer, kernel_cluster, ES, BX, mem>>

\* disk_read after a failed attempt: disk_reset, then dec di / jnz .retry
DiskReset ==
  /\ pc = "b_reset"
  /\ \/ \* INT 13h AH=00h sets CF
        /\ pc' = "b_floppy_error"
        /\ UNCHANGED <<di, dr>>
     \/ /\ di' = di - 1
        /\ dr' = [dr EXCEPT !.resets = @ + 1]
        /\ pc' = IF di' # 0 THEN "b_int13" ELSE "b_floppy_error"
  /\ UNCHANGED <<envVars, hostedVars, ioVars, bdb_sectors_per_track, bdb_heads,
                 ebr_drive_number, message, buffer, kernel_cluster, ES, BX, mem>>

\* repe cmpsb over 11 bytes of the entry at buffer + 32 * bx
NameEqualAsm(d, buf, bx) ==
  \A j \in 0..(NAME_LEN - 1) :
     file_kernel_bin[j + 1] =
       MemByte(d, buf, bdb_bytes_per_sector, (bx * DIR_ENTRY_SIZE + j) % W16)

\* .search_kernel compares the entry at bx = 0 before any test, then goes on
\* to bx + 1 while "cmp bx, [bdb_dir_entries_count] / jl" (a signed test)
\* holds: the last index it reaches
SearchLastIndex(entries) ==
  IF Signed16(entries) >= 1 THEN Signed16(entries) - 1 ELSE 0

\* a variant of the search that keeps the last entry that compares equal
search_kernel_last(d, buf) ==
  LET hits == { bx \in 0..SearchLastIndex(bdb_dir_entries_count) : NameEqualAsm(d, buf, bx) }
  IN  IF hits = {} THEN -1 ELSE CHOOSE i \in hits : \A j \in hits : j <= i

\* .search_kernel: index of the first entry that compares equal, NULL when
\* the loop falls through to kernel_not_found_error
search_kernel(d, buf) ==
  LET hits == { bx \in 0..SearchLastIndex(bdb_dir_entries_count) : NameEqualAsm(d, buf, bx) }
  IN  IF hits = {} THEN NULL ELSE First(hits)

\* step 7: search the root directory
BootSearchKernel ==
  /\ pc = "b_search"
  /\ pc' = IF search_kernel(disk, buffer) = NULL THEN "b_kernel_not_found" ELSE "b_found"
  /\ UNCHANGED <<envVars, hostedVars, ioVars, bootVars>>

\* .found_kernel and step 8: take the first cluster, read the FAT into `buffer`
BootFoundKernel ==
  /\ pc = "b_found"
  /\ LET i == search_kernel(disk, buffer)
     IN  kernel_cluster' =
           Word16(MemByte(disk, buffer, bdb_bytes_per_sector,
                          i * DIR_ENTRY_SIZE + OFF_FIRST_CLUSTER),
                  MemByte(disk, buffer, bdb_bytes_per_sector,
                          i * DIR_ENTRY_SIZE + OFF_FIRST_CLUSTER + 1))
  /\ CallDiskRead(bdb_reserved_sectors, Lo8(bdb_sectors_per_fat), "buffer", "b_load")
  /\ UNCHANGED <<envVars, hostedVars, ioVars, bdb_sectors_per_track, bdb_heads,
                 ebr_drive_number, message, buffer, ES, BX, mem>>

\* step 9: ES:BX = 0x2000:0
BootLoadSetup ==
  /\ pc = "b_load"
  /\ ES' = KERNEL_LOAD_SEGMENT
  /\ BX' = KERNEL_LOAD_OFFSET
  /\ pc' = "b_loop"
  /\ UNCHANGED <<envVars, hostedVars, ioVars, bdb_sectors_per_track, bdb_heads,
                 ebr_drive_number, message, buffer, kernel_cluster, mem, dr, di>>

\* .load_kernel_loop: read the sector of kernel_cluster to ES:BX
ClusterLbaAsm(cluster) == (cluster + DATA_LBA_BIAS) % W16

\* step 9: read the cluster in kernel_cluster to ES:BX
BootLoadCluster ==
  /\ pc = "b_loop"
  /\ CallDiskRead(ClusterLbaAsm(kernel_cluster), 1, "kernel", "b_next")
  /\ UNCHANGED <<envVars, hostedVars, ioVars, bdb_sectors_per_track, bdb_heads,
                 ebr_drive_number, message, buffer, kernel_cluster, ES, BX, mem>>

\* step 10: the values the FAT lookup for kernel_cluster can yield; bytes
\* outside what was read into `buffer` are whatever memory holds there
NextClustersAsm(d, buf, cluster) ==
  LET o == AsmFatOffset(cluster)
  IN  { NextClusterAsm(b0, b1, o.dx) :
          b0 \in MemBytes(d, buf, bdb_bytes_per_sector, o.ax),
          b1 \in MemBytes(d, buf, bdb_bytes_per_sector, (o.ax + 1) % W16) }

\* a variant of the end-of-chain test that lets 0xFF8 through
EndOfChainAsm_above(ax) == ax > EOC_MIN

\* .next_cluster_after: "cmp ax, 0x0FF8 / jae .read_finish"
EndOfChainAsm(ax) == ax >= EOC_MIN

\* after the read: advance BX, look up the next cluster, loop or finish
BootNextCluster ==
  /\ pc = "b_next"
  /\ BX' = (BX + bdb_bytes_per_sector) % W16
  /\ IF AsmFatOffset(kernel_cluster).fault
     THEN \* div cx raises #DE
          /\ pc' = "b_divide_error"
          /\ UNCHANGED kernel_cluster
     ELSE \E next \in NextClustersAsm(disk, buffer, kernel_cluster) :
            IF EndOfChainAsm(next)
            THEN pc' = "b_read_finish" /\ UNCHANGED kernel_cluster
            ELSE pc' = "b_loop" /\ kernel_cluster' = next
  /\ UNCHANGED <<envVars, hostedVars, ioVars, bdb_sectors_per_track, bdb_heads,
                 ebr_drive_number, message, buffer, ES, mem, dr, di>>

\* .read_finish: far jump to the loaded kernel
BootJumpKernel ==
  /\ pc = "b_read_finish"
  /\ ES' = KERNEL_LOAD_SEGMENT
  /\ pc' = "b_kernel"
  /\ UNCHANGED <<envVars, hostedVars, ioVars, bdb_sectors_per_track, bdb_heads,
                 ebr_drive_number, message, buffer, kernel_cluster, BX, mem, dr, di>>

\* floppy_error: "Read from disk failed!"
BootFloppyError ==
  /\ pc = "b_floppy_error"
  /\ message' = "read_failed"
  /\ pc' = "b_wait_key"
  /\ UNCHANGED <<envVars, hostedVars, ioVars, bdb_sectors_per_track, bdb_heads,
                 ebr_drive_number, buffer, kernel_cluster, ES, BX, mem, dr, di>>

\* kernel_not_found_error: "KERNEL.BIN file not found!"
BootKernelNotFound ==
  /\ pc = "b_kernel_not_found"
  /\ message' = "not_found"
  /\ pc' = "b_wait_key"
  /\ UNCHANGED <<envVars, hostedVars, ioVars, bdb_sectors_per_track, bdb_heads,
                 ebr_drive_number, buffer, kernel_cluster, ES, BX, mem, dr, di>>

\* wait_key_and_reboot
BootWaitKeyAndReboot ==
  /\ pc = "b_wait_key"
  /\ pc' = "b_reboot"
  /\ UNCHANGED <<envVars, hostedVars, ioVars, bootVars>>

(***************************************************************************)
(* vga.c                                                                   *)
(***************************************************************************)
VGA_WIDTH == 80
VGA_HEIGHT == 25

\* the statics as the image holds them before any call
InitVga ==
  /\ vga_x = 0
  /\ vga_y = 0
  /\ vga_color = 0
  /\ vga_cells = {}

\* no keyboard_readline call; `buffer` maps the indices written to the bytes
\* stored there, `ret` is the value returned
NoLine == [max_length |-> 0, count |-> 0, buffer |-> NoMem, ret |-> NULL]

\* keyboard_state = {0}
NoModifiers == [shift_pressed |-> FALSE, caps_lock |-> FALSE]

\* the ring buffer's statics as the image holds them; no interrupt yet
InitRing ==
  /\ keyboard_buffer = NoMem
  /\ buffer_start = 0
  /\ buffer_end = 0
  /\ buffer_size = 0
  /\ echo_enabled = TRUE
  /\ last_interrupt_time = 0
  /\ interrupt_in_progress = FALSE
  /\ debounce_time = 0
  /\ keyboard_state = NoModifiers
  /\ eflags_if = TRUE
  /\ pic_in_service = FALSE
  /\ getchar_ret = NULL
  /\ kbd_pending = << >>
  /\ presses = 0

\* kernel.c: int cursor_x = 0, cursor_y = 0
InitConsole ==
  /\ cursor_x = 0
  /\ cursor_y = 0
  /\ video_cells = {}

InitKeyboard == rl = NoLine /\ kbd_driver = "none" /\ InitRing /\ InitConsole

InitKernel == InitVga /\ InitKeyboard

\* the driver's statics as one value, with the cells a call has written
VgaState == [x |-> vga_x, y |-> vga_y, color |-> vga_color, cells |-> {}]

\* vga_entry_color: fg | (bg << 4) for colors 0..15
vga_entry_color(fg, bg) == (fg + bg * 16) % W8

\* the cells vga_scroll stores to: rows 0..23 from the row below, then row 24
ScrollCells ==
  { y * VGA_WIDTH + x : y \in 0..(VGA_HEIGHT - 2), x \in 0..(VGA_WIDTH - 1) }
    \cup { (VGA_HEIGHT - 1) * VGA_WIDTH + x : x \in 0..(VGA_WIDTH - 1) }

\* a variant of vga_scroll that acts one row too late
vga_scroll_late(st) ==
  IF st.y > VGA_HEIGHT
  THEN [st EXCEPT !.y = VGA_HEIGHT - 1, !.cells = @ \cup ScrollCells]
  ELSE st

\* vga_scroll
vga_scroll(st) ==
  IF st.y >= VGA_HEIGHT
  THEN [st EXCEPT !.y = VGA_HEIGHT - 1, !.cells = @ \cup ScrollCells]
  ELSE st

\* vga_putchar; vga_x and vga_y are uint8_t
vga_putchar(st, c) ==
  IF c = 10
  THEN vga_scroll([st EXCEPT !.x = 0, !.y = (@ + 1) % W8])
  ELSE LET w == [st EXCEPT !.cells = @ \cup {st.y * VGA_WIDTH + st.x}]
           nx == (st.x + 1) % W8
       IN  IF nx >= VGA_WIDTH
           THEN vga_scroll([w EXCEPT !.x = 0, !.y = (@ + 1) % W8])
           ELSE [w EXCEPT !.x = nx]

\* vga_write: vga_putchar for every character before the terminator
RECURSIVE vga_write(_, _)
vga_write(st, data) ==
  IF data = << >> THEN st ELSE vga_write(vga_putchar(st, Head(data)), Tail(data))

\* the cells vga_clear stores to
ClearCells == { y * VGA_WIDTH + x : y \in 0..(VGA_HEIGHT - 1), x \in 0..(VGA_WIDTH - 1) }

\* vga_clear: every cell, then the cursor
vga_clear(st) == [st EXCEPT !.x = 0, !.y = 0, !.cells = ClearCells]

\* the statics after a call
VgaReturn(st, name) ==
  /\ vga_x' = st.x
  /\ vga_y' = st.y
  /\ vga_color' = st.color
  /\ vga_cells' = st.cells
  /\ pc' = name
  /\ UNCHANGED <<ctx, disk, dec, calc, kbdVars, ioVars, hostedVars, bootVars>>

\* the colors and texts the callers pass
VgaColors == {0, 15}
VgaChars == {10, 65}
VgaTexts == { <<>>, <<72, 105>>, <<79, 75, 10>> }

VgaIdle == ctx = "vga" /\ pc \in {"v_start", "v_init", "v_clear", "v_putchar", "v_write", "v_setcolor"}

VgaInit ==
  /\ VgaIdle
  /\ VgaReturn(vga_clear([VgaState EXCEPT !.color = vga_entry_color(15, 0)]), "v_init")

VgaClear ==
  /\ VgaIdle
  /\ VgaReturn(vga_clear(VgaState), "v_clear")

VgaPutchar ==
  /\ VgaIdle
  /\ \E c \in VgaChars : VgaReturn(vga_putchar(VgaState, c), "v_putchar")

VgaWrite ==
  /\ VgaIdle
  /\ \E data \in VgaTexts : VgaReturn(vga_write(VgaState, data), "v_write")

VgaSetcolor ==
  /\ VgaIdle
  /\ \E fg \in VgaColors, bg \in VgaColors :
       VgaReturn([VgaState EXCEPT !.color = vga_entry_color(fg, bg)], "v_setcolor")

(***************************************************************************)
(* keyboard.c: keyboard_readline                                           *)
(***************************************************************************)
\* iterations of the read loop followed when the loop has no bound
ReadlineCap == 4

\* "count < max_length - 1" in size_t: for max_length 0 the right side is
\* SIZE_MAX, above every count
ReadlineContinues(count, max_length) ==
  IF max_length = 0 THEN TRUE ELSE count < max_length - 1

\* the loop body for the character c that keyboard_getchar returned
ReadlineStore(line, c) ==
  IF c = 8 /\ line.count > 0
  THEN [line EXCEPT !.count = @ - 1]
  ELSE [line EXCEPT !.buffer = (line.count :> c) @@ @, !.count = @ + 1]

\* line lengths the callers ask for, and what keyboard_getchar returns
MaxLengths == 0..3
LineChars == {0, 8, 10, 97}

\* keyboard_readline is called
ReadlineCall ==
  /\ ctx = "readline"
  /\ pc = "r_idle"
  /\ \E n \in MaxLengths : rl' = [NoLine EXCEPT !.max_length = n]
  /\ pc' = "r_loop"
  /\ UNCHANGED <<ctx, disk, dec, calc, vgaVars, ringVars, consoleVars, ioVars, hostedVars,
                 bootVars>>

\* one pass of the loop: a character arrives; '\n' ends the line
ReadlineStep ==
  /\ ctx = "readline"
  /\ pc = "r_loop"
  /\ ReadlineContinues(rl.count, rl.max_length)
  /\ rl.count < ReadlineCap
  /\ \E c \in LineChars :
       IF c = 10
       THEN /\ rl' = [rl EXCEPT !.buffer = (rl.count :> 0) @@ @, !.ret = rl.count]
            /\ pc' = "r_idle"
       ELSE /\ rl' = ReadlineStore(rl, c)
            /\ pc' = "r_loop"
  /\ UNCHANGED <<ctx, disk, dec, calc, vgaVars, ringVars, consoleVars, ioVars, hostedVars,
                 bootVars>>

\* the loop ends because the line is full
ReadlineFull ==
  /\ ctx = "readline"
  /\ pc = "r_loop"
  /\ ~ReadlineContinues(rl.count, rl.max_length)
  /\ rl' = [rl EXCEPT !.buffer = (rl.count :> 0) @@ @, !.ret = rl.count]
  /\ pc' = "r_idle"
  /\ UNCHANGED <<ctx, disk, dec, calc, vgaVars, ringVars, consoleVars, ioVars, hostedVars,
                 bootVars>>

(***************************************************************************)
(* The media and command lines the programs are run on                     *)
(***************************************************************************)
\* "KERNEL  BIM": differs from the kernel's name in the last byte only
OtherName == <<75, 69, 82, 78, 69, 76, 32, 32, 66, 73, 77>>

\* a medium with 1024-byte sectors, two sectors per cluster, one FAT and a
\* root directory that does not fill its last sector (slots 40..63 are padding)
SmallBpb ==
  [ BytesPerSector |-> 1024, SectorsPerCluster |-> 2, ReservedSectors |-> 1,
    FatCount |-> 1, DirEntryCount |-> 40, TotalSectors |-> 40, SectorsPerFat |-> 1 ]

Bpbs == {StdBpb, SmallBpb}

FloppyGeom == [spt |-> 18, heads |-> 2]

Kernel(first, size) == DirEntry(file_kernel_bin, first, size)
Other(first, size) == DirEntry(OtherName, first, size)

\* directories: empty; the file first; behind another name; twice; in the
\* last slot; only in the slot after the last one
DirLayouts(count) ==
  { (0 :> ZeroEntry),
    (0 :> Kernel(2, 600)),
    (0 :> Other(3, 600) @@ 2 :> Kernel(2, 600)),
    (1 :> Kernel(2, 600) @@ 3 :> Kernel(3, 600)),
    (0 :> Other(3, 600) @@ (count - 1) :> Kernel(2, 600)),
    (0 :> Other(3, 600) @@ count :> Kernel(2, 600)) }

\* entries 0 and 1 hold the media descriptor and an end-of-chain mark
FatOf(v2, v3) == (0 :> 4080 @@ 1 :> 4095 @@ 2 :> v2 @@ 3 :> v3)

FatVals == {0, 1, 2, 3, 4088, 4095}
FirstClusters == {0, 2, 3, 4088, 4095}
Sizes == {0, 600, 3000}

\* one cluster more than the 64 KiB that ES:BX can address
LongChainLen == (W16 \div bdb_bytes_per_sector) + 1

\* the chain 2 -> 3 -> ... -> n+1 -> end of chain
LinearFat(n) ==
  [i \in 0..(n + 1) |->
     IF i = 0 THEN 4080 ELSE IF i = 1 \/ i = n + 1 THEN 4095 ELSE i + 1]

\* a medium in the first floppy drive (BIOS drive number 0)
MkDisk(b, dir, fat) ==
  [bpb |-> b, dir |-> dir, fat |-> fat, geom |-> FloppyGeom, drive |-> 0]

\* the same image booted as the first hard disk: the BIOS hands over drive
\* number 0x80 and reports a hard disk geometry
HardDiskGeom == [spt |-> 63, heads |-> 16]
AsHardDisk(d) == [d EXCEPT !.geom = HardDiskGeom, !.drive = 128]

SearchDisks ==
  UNION { { MkDisk(b, dl, FatOf(4095, 4095)) : dl \in DirLayouts(b.DirEntryCount) } :
          b \in Bpbs }

WalkDisks ==
  { MkDisk(b, (0 :> Kernel(f, sz)), FatOf(v2, v3)) :
      b \in Bpbs, f \in FirstClusters, sz \in Sizes, v2 \in FatVals, v3 \in FatVals }

LongDisk ==
  MkDisk(StdBpb, (0 :> Kernel(2, LongChainLen * bdb_bytes_per_sector)), LinearFat(LongChainLen))

\* the boot sector carries its own parameter block: it runs on StdBpb media
\* and never reads an entry's size: one size for each first cluster is enough
BootDisks ==
  { d \in SearchDisks : d.bpb = StdBpb }
  \cup { d \in WalkDisks :
           /\ d.bpb = StdBpb
           /\ d.dir[0].Size = (IF d.dir[0].FirstClusterLow >= EOC_MIN THEN 0 ELSE 600) }
  \cup {LongDisk}
  \cup { AsHardDisk(d) : d \in { e \in SearchDisks : e.bpb = StdBpb } }

Scenarios ==
  { [ctx |-> "hosted", disk |-> d, key |-> k] :
      d \in SearchDisks, k \in {file_kernel_bin, OtherName} }
  \cup { [ctx |-> "hosted", disk |-> d, key |-> file_kernel_bin] :
           d \in WalkDisks \cup {LongDisk} }
  \cup { [ctx |-> "boot", disk |-> d, key |-> file_kernel_bin] : d \in BootDisks }

InitHosted ==
  /\ g_BootSector = NoBpb
  /\ g_Fat = NullBuf
  /\ g_RootDirectory = NullBuf
  /\ g_RootDirectoryEnd = 0
  /\ fileEntry = NULL
  /\ fileSize = 0
  /\ mainBuffer = NullBuf
  /\ currentCluster = 0
  /\ ok = TRUE
  /\ outputBuffer = 0
  /\ overrun = FALSE
  /\ exitCode = NULL
  /\ stdoutBytes = 0
  /\ stdout = << >>

InitBoot ==
  /\ bdb_sectors_per_track = ASM_SECTORS_PER_TRACK
  /\ bdb_heads = ASM_HEADS
  /\ ebr_drive_number = 0
  /\ message = ""
  /\ buffer = NoMem
  /\ kernel_cluster = 0
  /\ ES = 0
  /\ BX = 0
  /\ mem = NoMem
  /\ dr = NoCall
  /\ di = 0

\* the state either program starts in, for the runs in `scs`
InitOn(scs) ==
  /\ \E sc \in scs :
       /\ ctx = sc.ctx
       /\ disk = sc.disk
       /\ name11 = sc.key
  /\ dec = NoDecode
  /\ calc = NoCalc
  /\ InitKernel
  /\ argc \in (IF ctx = "hosted" THEN {2, 3} ELSE {3})
  /\ pc = IF ctx = "hosted" THEN "h_args" ELSE "b_start"
  /\ ioTick = FALSE
  /\ ioLast = NoIo
  /\ clusterRead = FALSE
  /\ InitHosted
  /\ InitBoot

Init == InitOn(Scenarios)

Next ==
  \/ HostedArgs
  \/ HostedOpen
  \/ HostedReadBootSector
  \/ HostedReadFat
  \/ HostedReadRootDirectory
  \/ HostedFindFile
  \/ HostedAllocBuffer
  \/ HostedReadFileStep
  \/ HostedReadFileReturn
  \/ HostedPrint
  \/ HostedCrash
  \/ BootStart
  \/ BootReadRootDir
  \/ DiskReadAttempt
  \/ DiskReset
  \/ BootSearchKernel
  \/ BootFoundKernel
  \/ BootLoadSetup
  \/ BootLoadCluster
  \/ BootNextCluster
  \/ BootJumpKernel
  \/ BootFloppyError
  \/ BootKernelNotFound
  \/ BootWaitKeyAndReboot

Spec == Init /\ [][Next]_vars

\* each program is a single thread of control that takes its next step
FairSpec == Spec /\ WF_vars(Next)

\* the boot sector alone, on the media whose cluster 3 ends a chain
InitBootSector ==
  InitOn({ sc \in Scenarios :
             sc.ctx = "boot" /\ sc.disk # LongDisk /\ FatSlot(sc.disk.fat, 3) = 4095 })

NextBootSector ==
  \/ BootStart
  \/ BootReadRootDir
  \/ DiskReadAttempt
  \/ DiskReset
  \/ BootSearchKernel
  \/ BootFoundKernel
  \/ BootLoadSetup
  \/ BootLoadCluster
  \/ BootNextCluster
  \/ BootJumpKernel
  \/ BootFloppyError
  \/ BootKernelNotFound
  \/ BootWaitKeyAndReboot

\* the CPU keeps executing the boot sector's instructions
FairSpecBootSector ==
  InitBootSector /\ [][NextBootSector]_vars /\ WF_vars(NextBootSector)

(***************************************************************************)
(* The FAT entry decode of both programs, run on a table of bytes          *)
(***************************************************************************)
\* length of the stretch of the table that is not zero
DecodeLen == 3

ByteSamples == {0, 18, 52, 86, 255}

\* the first and the last entries of a 12-bit table, and a pair in the middle
DecodeIndices == {0, 1, 2, 3, 2730, 2731, 4094, 4095}

\* byte `off` of the table: zero outside the stretch that starts at `base`
TableByte(d, off) ==
  IF off >= d.base /\ off < d.base + Len(d.bytes) THEN d.bytes[off - d.base + 1] ELSE 0

\* tables whose non-zero stretch starts at the bytes that entry i shares with
\* its neighbour
DecodeInputs ==
  { [base |-> 3 * (i \div 2), bytes |-> b, i |-> i, c |-> NULL, asm |-> NULL, fault |-> FALSE] :
      i \in DecodeIndices, b \in [1..DecodeLen -> ByteSamples] }

InitDecode ==
  /\ ctx = "decode"
  /\ disk = MkDisk(StdBpb, (0 :> ZeroEntry), FatOf(4095, 4095))
  /\ name11 = file_kernel_bin
  /\ dec \in DecodeInputs
  /\ calc = NoCalc
  /\ InitKernel
  /\ argc = 2
  /\ pc = "d_c"
  /\ ioTick = FALSE
  /\ ioLast = NoIo
  /\ clusterRead = FALSE
  /\ InitHosted
  /\ InitBoot

\* readFile: the lookup of the entry of cluster dec.i
DecodeC ==
  /\ pc = "d_c"
  /\ LET fatIndex == FatIndex(dec.i)
     IN  dec' = [dec EXCEPT !.c = NextClusterC(TableByte(dec, fatIndex),
                                               TableByte(dec, fatIndex + 1), dec.i)]
  /\ pc' = "d_asm"
  /\ UNCHANGED <<ctx, disk, calc, kernelVars, ioVars, hostedVars, bootVars>>

\* .load_kernel_loop step 10: the lookup of the entry of cluster dec.i
DecodeAsm ==
  /\ pc = "d_asm"
  /\ LET o == AsmFatOffset(dec.i)
     IN  dec' = [dec EXCEPT
                   !.fault = o.fault,
                   !.asm = IF o.fault THEN NULL
                           ELSE NextClusterAsm(TableByte(dec, o.ax),
                                               TableByte(dec, (o.ax + 1) % W16), o.dx)]
  /\ pc' = "d_done"
  /\ UNCHANGED <<ctx, disk, calc, kernelVars, ioVars, hostedVars, bootVars>>

NextDecode ==
  \/ DecodeC
  \/ DecodeAsm

SpecDecode == InitDecode /\ [][NextDecode]_vars

(***************************************************************************)
(* The geometry arithmetic on its own: the root directory size, the        *)
(* cluster to LBA mapping and lba_to_chs, applied to BPB fields, clusters,  *)
(* LBAs and drive geometries.                                              *)
(***************************************************************************)
GeomEntries == {0, 1, 16, 17, 40, 224, 225, 512, 2047, 2048, 2049, 4096, 32768, 65535}

GeomSectorSizes == {512, 1024, 2048, 4096}

\* BPBs that differ from the assembled one in one field, and a small volume
GeomBpbs ==
  { StdBpb, SmallBpb,
    [StdBpb EXCEPT !.SectorsPerCluster = 2],
    [StdBpb EXCEPT !.DirEntryCount = 225],
    [StdBpb EXCEPT !.FatCount = 1],
    [StdBpb EXCEPT !.ReservedSectors = 2] }

GeomClusters == {2, 3, 4, 2848, 4087}

\* sectors per track and heads of a few drives (heads as stored: dh + 1)
GeomGeometries ==
  { FloppyGeom, HardDiskGeom, [spt |-> 9, heads |-> 2], [spt |-> 17, heads |-> 4],
    [spt |-> 63, heads |-> 255] }

\* LBAs of a drive with that geometry: INT 13h addresses 1024 cylinders and
\* disk_read takes the LBA in AX
GeomLbas(g) ==
  LET track == g.spt
      cyl == g.spt * g.heads
  IN  { l \in { 0, 1, track - 1, track, cyl - 1, cyl, cyl + track + 1, 2879,
                256 * cyl - 1, 256 * cyl, 600 * cyl + track + 4, 1024 * cyl - 1, W16 - 1 } :
          l < W16 /\ l < 1024 * cyl }

GeomInputs ==
  { [NoCalc EXCEPT !.kind = "root",
                   !.bpb = [StdBpb EXCEPT !.DirEntryCount = e, !.BytesPerSector = b]] :
      e \in GeomEntries, b \in GeomSectorSizes }
  \cup { [NoCalc EXCEPT !.kind = "lba", !.bpb = b, !.cluster = c] :
           b \in GeomBpbs, c \in GeomClusters }
  \cup UNION { { [NoCalc EXCEPT !.kind = "chs", !.spt = g.spt, !.heads = g.heads,
                                !.lba = l, !.dx = dx] :
                   l \in GeomLbas(g), dx \in {0, 128, 4736} } : g \in GeomGeometries }

InitGeom ==
  /\ ctx = "geom"
  /\ disk = MkDisk(StdBpb, (0 :> ZeroEntry), FatOf(4095, 4095))
  /\ name11 = file_kernel_bin
  /\ dec = NoDecode
  /\ calc \in GeomInputs
  /\ InitKernel
  /\ argc = 2
  /\ pc = CASE calc.kind = "root" -> "g_root_c"
            [] calc.kind = "lba" -> "g_lba_c"
            [] OTHER -> "g_chs"
  /\ ioTick = FALSE
  /\ ioLast = NoIo
  /\ clusterRead = FALSE
  /\ InitHosted
  /\ InitBoot

\* readRootDirectory: the sector count of the root directory
GeomRootC ==
  /\ pc = "g_root_c"
  /\ calc' = [calc EXCEPT !.sectorsC = RootDirSectorsC(calc.bpb)]
  /\ pc' = "g_root_asm"
  /\ UNCHANGED <<ctx, disk, dec, kernelVars, ioVars, hostedVars, bootVars>>

\* step 5 of the boot sector: the sector count of the root directory
GeomRootAsm ==
  /\ pc = "g_root_asm"
  /\ calc' = [calc EXCEPT !.sectorsAsm =
                 RootDirSectorsAsm(calc.bpb.DirEntryCount, calc.bpb.BytesPerSector)]
  /\ pc' = "g_done"
  /\ UNCHANGED <<ctx, disk, dec, kernelVars, ioVars, hostedVars, bootVars>>

\* readRootDirectory sets g_RootDirectoryEnd, readFile maps the cluster
GeomLbaC ==
  /\ pc = "g_lba_c"
  /\ LET rootDirLba == calc.bpb.ReservedSectors + calc.bpb.SectorsPerFat * calc.bpb.FatCount
         rootEnd == rootDirLba + RootDirSectorsC(calc.bpb)
     IN  calc' = [calc EXCEPT !.rootEndC = rootEnd,
                              !.lbaC = ClusterLbaC(rootEnd, calc.bpb, calc.cluster)]
  /\ pc' = "g_lba_asm"
  /\ UNCHANGED <<ctx, disk, dec, kernelVars, ioVars, hostedVars, bootVars>>

\* .load_kernel_loop maps the cluster
GeomLbaAsm ==
  /\ pc = "g_lba_asm"
  /\ calc' = [calc EXCEPT !.lbaAsm = ClusterLbaAsm(calc.cluster)]
  /\ pc' = "g_done"
  /\ UNCHANGED <<ctx, disk, dec, kernelVars, ioVars, hostedVars, bootVars>>

\* lba_to_chs with AX = calc.lba and DX = calc.dx on entry: CH, CL, DH from
\* the divisions, DL from the saved DX ("pop ax / mov dl, al")
GeomChs ==
  /\ pc = "g_chs"
  /\ LET r == lba_to_chs(calc.lba, calc.spt, calc.heads)
     IN  calc' = [calc EXCEPT !.chs = [ch |-> r.ch, cl |-> r.cl, dh |-> r.dh,
                                      dl |-> Lo8(calc.dx)]]
  /\ pc' = "g_done"
  /\ UNCHANGED <<ctx, disk, dec, kernelVars, ioVars, hostedVars, bootVars>>

NextGeom ==
  \/ GeomRootC
  \/ GeomRootAsm
  \/ GeomLbaC
  \/ GeomLbaAsm
  \/ GeomChs

SpecGeom == InitGeom /\ [][NextGeom]_vars

(***************************************************************************)
(* The kernel's drivers on their own                                       *)
(***************************************************************************)
\* the FAT12 programs are not running
InitFatIdle ==
  /\ disk = MkDisk(StdBpb, (0 :> ZeroEntry), FatOf(4095, 4095))
  /\ name11 = file_kernel_bin
  /\ dec = NoDecode
  /\ calc = NoCalc
  /\ argc = 2
  /\ ioTick = FALSE
  /\ ioLast = NoIo
  /\ clusterRead = FALSE
  /\ InitHosted
  /\ InitBoot

InitVgaCalls ==
  /\ ctx = "vga"
  /\ pc = "v_start"
  /\ InitFatIdle
  /\ InitKernel

NextVga ==
  \/ VgaInit
  \/ VgaClear
  \/ VgaPutchar
  \/ VgaWrite
  \/ VgaSetcolor

SpecVga == InitVgaCalls /\ [][NextVga]_vars

InitReadline ==
  /\ ctx = "readline"
  /\ pc = "r_idle"
  /\ InitFatIdle
  /\ InitKernel

NextReadline ==
  \/ ReadlineCall
  \/ ReadlineStep
  \/ ReadlineFull

SpecReadline == InitReadline /\ [][NextReadline]_vars

(***************************************************************************)
(* The keyboard interrupt and the ring buffer: kernel/keyboard.c with the  *)
(* stub of kernel/interrupt.asm, the driver with debouncing and modifier   *)
(* keys (part_009) and the handler of idt.c (part_005), both with the stub *)
(* that leaves the EOI to the handler                                      *)
(***************************************************************************)
KEYBOARD_BUFFER_SIZE == 256
KEYBOARD_BUFFER_THRESHOLD == KEYBOARD_BUFFER_SIZE - 16
DEBOUNCE_INTERRUPTS == 5

\* keyboard interrupts of one run
MaxPresses == 4

\* keyboard_getchar calls on an empty buffer that take a byte all the same
MaxUnderflow == 2

\* size_t and uint32_t values are kept as their 32-bit two's complement
\* image; a < b for the unsigned values
ULess(a, b) == IF (a < 0) = (b < 0) THEN a < b ELSE b < 0

\* scancode_to_ascii of keyboard.c and idt.c (entry 1 is Esc)
scancode_to_ascii ==
  << 0, 27, 49, 50, 51, 52, 53, 54, 55, 56, 57, 48, 45, 61, 8,
     9, 113, 119, 101, 114, 116, 121, 117, 105, 111, 112, 91, 93, 10,
     0, 97, 115, 100, 102, 103, 104, 106, 107, 108, 59, 39, 96,
     0, 92, 122, 120, 99, 118, 98, 110, 109, 44, 46, 47, 0,
     42, 0, 32 >>

\* scancode_to_ascii of part_009 (entry 1 is 0)
scancode_to_ascii_debounce == [scancode_to_ascii EXCEPT ![2] = 0]

\* "scancode < 0x80 && scancode < sizeof(scancode_to_ascii)", then the table
\* entry; 0 when the test fails
AsciiOf(table, scancode) ==
  IF scancode < 128 /\ scancode < Len(table) THEN table[scancode + 1] ELSE 0

\* a variant of the handler's test that stores into a full buffer too
HandlerStores_full(ascii, size) == ascii # 0

\* keyboard_handler: "ascii != 0 && buffer_size < KEYBOARD_BUFFER_SIZE"
HandlerStores(ascii, size) == ascii # 0 /\ ULess(size, KEYBOARD_BUFFER_SIZE)

\* buffer[i]; static storage starts as zeros
KbByte(i) == IF i \in DOMAIN keyboard_buffer THEN keyboard_buffer[i] ELSE 0

\* buffer[buffer_end] = ascii; buffer_end = (buffer_end + 1) % 256; buffer_size++
Enqueue(ascii) ==
  /\ keyboard_buffer' = (buffer_end :> ascii) @@ keyboard_buffer
  /\ buffer_end' = (buffer_end + 1) % KEYBOARD_BUFFER_SIZE
  /\ buffer_size' = buffer_size + 1
  /\ kbd_pending' = Append(kbd_pending, ascii)

NoEnqueue == UNCHANGED <<keyboard_buffer, buffer_end, buffer_size, kbd_pending>>

\* kernel.c: putchar; cursor_x and cursor_y are ints
putchar(st, c) ==
  LET w == IF c = 10
           THEN [st EXCEPT !.x = 0, !.y = @ + 1]
           ELSE [st EXCEPT !.x = @ + 1, !.cells = @ \cup {st.y * VGA_WIDTH + st.x}]
      n == IF w.x >= VGA_WIDTH THEN [w EXCEPT !.x = 0, !.y = @ + 1] ELSE w
  IN  IF n.y >= VGA_HEIGHT
      THEN [n EXCEPT !.y = @ - 1,
                     !.cells = @ \cup (0 .. (VGA_WIDTH * (VGA_HEIGHT - 1) - 1))]
      ELSE n

\* the scancodes the keyboard sends: 'a', 's', left shift pressed and
\* released, caps lock
Scancodes == {30, 31, 42, 170, 58}

\* IRQ1 is delivered: interrupts are enabled and the PIC is not waiting for
\* the EOI of an earlier keyboard interrupt
IrqDelivered(driver) ==
  /\ ctx = "keyboard"
  /\ kbd_driver = driver
  /\ eflags_if
  /\ ~pic_in_service
  /\ presses < MaxPresses
  /\ presses' = presses + 1
  /\ pc' = IF pc = "k_hlt" THEN "k_test" ELSE pc
  /\ UNCHANGED <<ctx, disk, dec, calc, rl, kbd_driver, ioVars, hostedVars, bootVars>>

\* kernel/interrupt.asm keyboard_handler_int around kernel/keyboard.c
\* keyboard_handler: the handler stores and echoes, the stub sends the EOI
KeyboardHandlerInt ==
  /\ IrqDelivered("kernel/keyboard.c")
  /\ \E scancode \in Scancodes :
       LET ascii == AsciiOf(scancode_to_ascii, scancode)
           store == HandlerStores(ascii, buffer_size)
       IN  /\ IF store THEN Enqueue(ascii) ELSE NoEnqueue
           /\ IF store /\ echo_enabled
              THEN LET st == vga_putchar(VgaState, ascii)
                   IN  /\ vga_x' = st.x
                       /\ vga_y' = st.y
                       /\ vga_color' = st.color
                       /\ vga_cells' = st.cells
              ELSE UNCHANGED vgaVars
  /\ pic_in_service' = FALSE
  /\ UNCHANGED <<buffer_start, echo_enabled, last_interrupt_time, interrupt_in_progress,
                 debounce_time, keyboard_state, eflags_if, getchar_ret, consoleVars>>

\* part_009 keyboard_handler behind the stub of part_005: the handler sends
\* the EOI itself, on the paths where it does
KeyboardHandlerDebounce ==
  /\ IrqDelivered("unnamed/part_009")
  /\ debounce_time' = debounce_time + 1
  /\ IF ULess(debounce_time' - last_interrupt_time, DEBOUNCE_INTERRUPTS)
     THEN \* debounce rejection: EOI, return
          /\ interrupt_in_progress' = TRUE
          /\ pic_in_service' = FALSE
          /\ NoEnqueue
          /\ UNCHANGED <<last_interrupt_time, keyboard_state>>
     ELSE /\ last_interrupt_time' = debounce_time'
          /\ \E scancode \in Scancodes :
               CASE scancode = 42 ->
                      /\ keyboard_state' = [keyboard_state EXCEPT !.shift_pressed = TRUE]
                      /\ interrupt_in_progress' = TRUE
                      /\ pic_in_service' = TRUE
                      /\ NoEnqueue
                 [] scancode = 170 ->
                      /\ keyboard_state' = [keyboard_state EXCEPT !.shift_pressed = FALSE]
                      /\ interrupt_in_progress' = TRUE
                      /\ pic_in_service' = TRUE
                      /\ NoEnqueue
                 [] scancode = 58 ->
                      /\ keyboard_state' = [keyboard_state EXCEPT !.caps_lock = ~@]
                      /\ interrupt_in_progress' = TRUE
                      /\ pic_in_service' = TRUE
                      /\ NoEnqueue
                 [] OTHER ->
                      /\ UNCHANGED keyboard_state
                      /\ IF ~ULess(buffer_size, KEYBOARD_BUFFER_THRESHOLD)
                         THEN \* buffer overflow protection: EOI, return
                              /\ interrupt_in_progress' = TRUE
                              /\ pic_in_service' = FALSE
                              /\ NoEnqueue
                         ELSE LET ascii == AsciiOf(scancode_to_ascii_debounce, scancode)
                              IN  /\ IF HandlerStores(ascii, buffer_size)
                                     THEN Enqueue(ascii)
                                     ELSE NoEnqueue
                                  /\ pic_in_service' = FALSE
                                  /\ interrupt_in_progress' = FALSE
  /\ UNCHANGED <<buffer_start, echo_enabled, eflags_if, getchar_ret, vgaVars, consoleVars>>

\* part_005 (idt.c) keyboard_handler behind its stub: store, echo with
\* kernel.c's putchar, EOI at the end; its counters are ints
KeyboardHandlerIdt ==
  /\ IrqDelivered("unnamed/part_005")
  /\ \E scancode \in Scancodes :
       LET ascii == AsciiOf(scancode_to_ascii, scancode)
           store == ascii # 0 /\ buffer_size < KEYBOARD_BUFFER_SIZE
       IN  IF store
           THEN /\ Enqueue(ascii)
                /\ LET st == putchar([x |-> cursor_x, y |-> cursor_y, cells |-> {}], ascii)
                   IN  /\ cursor_x' = st.x
                       /\ cursor_y' = st.y
                       /\ video_cells' = st.cells
           ELSE NoEnqueue /\ UNCHANGED consoleVars
  /\ pic_in_service' = FALSE
  /\ UNCHANGED <<buffer_start, echo_enabled, last_interrupt_time, interrupt_in_progress,
                 debounce_time, keyboard_state, eflags_if, getchar_ret, vgaVars>>

\* keyboard_available
keyboard_available == buffer_size # 0

\* what a step of keyboard_getchar leaves alone besides the ring buffer
GetcharFrame ==
  /\ ctx = "keyboard"
  /\ kbd_driver \in {"kernel/keyboard.c", "unnamed/part_009"}
  /\ UNCHANGED <<ctx, disk, dec, calc, rl, kbd_driver, vgaVars, consoleVars, ioVars,
                 hostedVars, bootVars, keyboard_buffer, buffer_end, echo_enabled,
                 last_interrupt_time, interrupt_in_progress, debounce_time, keyboard_state,
                 pic_in_service, presses>>

\* the kernel calls keyboard_getchar
GetcharCall ==
  /\ GetcharFrame
  /\ pc = "k_idle"
  /\ ULess(buffer_size, KEYBOARD_BUFFER_SIZE + 1) \/ buffer_size > -MaxUnderflow
  /\ pc' = "k_test"
  /\ UNCHANGED <<buffer_start, buffer_size, eflags_if, getchar_ret, kbd_pending>>

\* the test of the while loop; part_009 also leaves the loop when
\* interrupt_in_progress is set, and returns 0 when interrupts are disabled
GetcharTest ==
  /\ GetcharFrame
  /\ pc = "k_test"
  /\ IF kbd_driver = "kernel/keyboard.c"
     THEN /\ pc' = IF ~keyboard_available THEN "k_body" ELSE "k_cli"
          /\ UNCHANGED getchar_ret
     ELSE IF ~keyboard_available /\ ~interrupt_in_progress
          THEN IF ~eflags_if
               THEN pc' = "k_idle" /\ getchar_ret' = 0
               ELSE pc' = "k_body" /\ UNCHANGED getchar_ret
          ELSE pc' = "k_cli" /\ UNCHANGED getchar_ret
  /\ UNCHANGED <<buffer_start, buffer_size, eflags_if, kbd_pending>>

\* hlt: the CPU stops until the next interrupt
GetcharHlt ==
  /\ GetcharFrame
  /\ pc = "k_body"
  /\ pc' = "k_hlt"
  /\ UNCHANGED <<buffer_start, buffer_size, eflags_if, getchar_ret, kbd_pending>>

\* isr_disable
GetcharDisable ==
  /\ GetcharFrame
  /\ pc = "k_cli"
  /\ eflags_if' = FALSE
  /\ pc' = "k_crit"
  /\ UNCHANGED <<buffer_start, buffer_size, getchar_ret, kbd_pending>>

\* c = buffer[buffer_start]; buffer_start = (buffer_start + 1) % 256;
\* buffer_size--; isr_enable(); return c
GetcharDequeue ==
  /\ GetcharFrame
  /\ pc = "k_crit"
  /\ getchar_ret' = KbByte(buffer_start)
  /\ buffer_start' = (buffer_start + 1) % KEYBOARD_BUFFER_SIZE
  /\ buffer_size' = buffer_size - 1
  /\ kbd_pending' = IF kbd_pending = << >> THEN << >> ELSE Tail(kbd_pending)
  /\ eflags_if' = TRUE
  /\ pc' = "k_idle"

\* the n-th key of a typing session that came before: 'a' and 's' in turn
TypedChar(n) == IF n % 2 = 0 THEN 97 ELSE 115

\* the driver's state after `typed` keys were stored and `taken` of them
\* returned by keyboard_getchar
KeyboardRuns ==
  { [driver |-> "kernel/keyboard.c", typed |-> t[1], taken |-> t[2], rejected |-> 0,
     echo |-> t[3]] :
      t \in { <<0, 0, TRUE>>, <<0, 0, FALSE>>, <<505, 250, TRUE>> } }
  \cup { [driver |-> "unnamed/part_009", typed |-> t, taken |-> 0, rejected |-> r, echo |-> TRUE] :
           t \in {0, 240}, r \in {0, 4} }
  \cup { [driver |-> "unnamed/part_005", typed |-> t, taken |-> 0, rejected |-> 0, echo |-> TRUE] :
           t \in {0, 255} }

InitKeyboardRun ==
  /\ ctx = "keyboard"
  /\ pc = "k_idle"
  /\ InitFatIdle
  /\ rl = NoLine
  /\ \E run \in KeyboardRuns :
       LET echoed == IF run.echo THEN run.typed ELSE 0
           vga == run.driver = "kernel/keyboard.c"
           console == run.driver = "unnamed/part_005"
       IN  /\ kbd_driver = run.driver
           /\ keyboard_buffer =
                [j \in { i \in 0..(KEYBOARD_BUFFER_SIZE - 1) : i < run.typed } |-> TypedChar(j)]
           /\ buffer_start = run.taken % KEYBOARD_BUFFER_SIZE
           /\ buffer_end = run.typed % KEYBOARD_BUFFER_SIZE
           /\ buffer_size = run.typed - run.taken
           /\ kbd_pending = [k \in 1..(run.typed - run.taken) |-> TypedChar(run.taken + k - 1)]
           /\ echo_enabled = run.echo
           /\ last_interrupt_time =
                IF run.driver = "unnamed/part_009" THEN DEBOUNCE_INTERRUPTS * run.typed ELSE 0
           /\ debounce_time =
                IF run.driver = "unnamed/part_009"
                THEN DEBOUNCE_INTERRUPTS * run.typed + run.rejected ELSE 0
           /\ interrupt_in_progress = (run.rejected > 0)
           /\ getchar_ret = IF run.taken > 0 THEN TypedChar(run.taken - 1) ELSE NULL
           /\ vga_x = IF vga THEN echoed % VGA_WIDTH ELSE 0
           /\ vga_y = IF vga THEN echoed \div VGA_WIDTH ELSE 0
           /\ vga_cells = IF vga /\ echoed > 0 THEN {echoed - 1} ELSE {}
           /\ cursor_x = IF console THEN echoed % VGA_WIDTH ELSE 0
           /\ cursor_y = IF console THEN echoed \div VGA_WIDTH ELSE 0
           /\ video_cells = IF console /\ echoed > 0 THEN {echoed - 1} ELSE {}
  /\ vga_color = 0
  /\ keyboard_state = NoModifiers
  /\ eflags_if = TRUE
  /\ pic_in_service = FALSE
  /\ presses = 0

NextKeyboard ==
  \/ KeyboardHandlerInt
  \/ KeyboardHandlerDebounce
  \/ KeyboardHandlerIdt
  \/ GetcharCall
  \/ GetcharTest
  \/ GetcharHlt
  \/ GetcharDisable
  \/ GetcharDequeue

SpecKeyboard == InitKeyboardRun /\ [][NextKeyboard]_vars

(***************************************************************************)
(* What the medium holds, read off the disk record itself                  *)
(***************************************************************************)
\* the first root-directory slot below DirEntryCount that carries `key`
DirLookup(d, key) ==
  LET hits == { i \in DOMAIN d.dir : i < d.bpb.DirEntryCount /\ d.dir[i].Name = key }
  IN  IF hits = {} THEN NULL ELSE First(hits)

\* the directory entry the run is about (only used where DirLookup is not NULL)
TheEntry == disk.dir[DirLookup(disk, name11)]

\* one link of a chain: the FAT entry of a data cluster; a value that is no
\* data cluster (0, 1, an end-of-chain mark) has no successor
FatNext(fat, c) == IF c >= 2 /\ c < EOC_MIN THEN FatSlot(fat, c) ELSE c

\* the value reached from c after k links
RECURSIVE Kth(_, _, _)
Kth(fat, c, k) ==
  IF k = 0 THEN c
  ELSE IF k % 2 = 0 THEN Kth(fat, Kth(fat, c, k \div 2), k \div 2)
  ELSE FatNext(fat, Kth(fat, c, k - 1))

\* a chain c1 -> ... -> cn -> EOC of data clusters starts at `first`
WellFormedChain(d, first) ==
  /\ first >= 2 /\ first < EOC_MIN
  /\ \E n \in 1..Cardinality(DOMAIN d.fat) : Kth(d.fat, first, n) >= EOC_MIN

\* its length n
ChainLen(d, first) ==
  First({ n \in 1..Cardinality(DOMAIN d.fat) : Kth(d.fat, first, n) >= EOC_MIN })

\* slot of memory that the first byte at 0x2000:0 falls into
KernelSlot0 == (KERNEL_LOAD_SEGMENT * 16 + KERNEL_LOAD_OFFSET) \div bdb_bytes_per_sector

(***************************************************************************)
(* Properties                                                              *)
(***************************************************************************)
\* C1 (as stated): when the file's directory entry has a first cluster that
\* is already an end-of-chain value (>= 0xFF8) and size 0, the chain walker
\* issues no sector read at all and leaves its output empty.
C1_NoReadWhenFirstClusterIsEoc ==
  (/\ DirLookup(disk, name11) # NULL
   /\ TheEntry.FirstClusterLow >= EOC_MIN
   /\ TheEntry.Size = 0)
  => (~clusterRead /\ mainBuffer.m = NoMem /\ mem = NoMem)

\* C2 (as stated): for every well-formed chain c1 -> ... -> cn -> EOC that
\* starts at the entry's first cluster, a walk without I/O failure writes
\* exactly n clusters, and the k-th cluster-sized slice of its output holds
\* the sectors of cluster ck, in chain order.
C2_WalkOutputIsTheChain ==
  (/\ (pc = "h_ret" /\ ok) \/ pc = "b_read_finish"
   /\ DirLookup(disk, name11) # NULL
   /\ WellFormedChain(disk, TheEntry.FirstClusterLow))
  => LET first == TheEntry.FirstClusterLow
         n == ChainLen(disk, first)
         spc == disk.bpb.SectorsPerCluster
         bps == disk.bpb.BytesPerSector
         out == IF ctx = "hosted" THEN mainBuffer.m ELSE mem
         slot0 == IF ctx = "hosted" THEN 0 ELSE KernelSlot0
     IN  /\ DOMAIN out = slot0 .. (slot0 + n * spc - 1)
         /\ ctx = "hosted" => outputBuffer = n * spc * bps
         /\ \A k \in 0..(n - 1), sec \in 0..(spc - 1) :
              out[slot0 + k * spc + sec]
                = FmtClusterLba(disk.bpb, Kth(disk.fat, first, k)) + sec

\* the program has stopped: the hosted process has exited or was killed, the
\* boot sector has handed over to the kernel, rebooted or faulted
Terminated ==
  pc \in {"h_exit", "h_crash", "b_kernel", "b_reboot", "b_divide_error"}

\* C3 (as stated): on every FAT, cyclic ones included, the chain walker
\* terminates: every run eventually stops.
C3_WalkerTerminates == <>Terminated

\* the entry of cluster c lies inside the FAT as the medium stores it
InFat(d, c) == (c * 3) \div 2 + 1 < d.bpb.SectorsPerFat * d.bpb.BytesPerSector

\* C4: after a cluster was read, the walk stops (readFile returns, the boot
\* sector goes to .read_finish) exactly when the FAT entry of that cluster is
\* in 0xFF8..0xFFF; for every smaller entry, 0 and 1 included, the walk goes
\* on with that value as its cluster, and the read it issues then is the read
\* of that cluster's sectors.
C4_StopsExactlyAtEndOfChain ==
  [][ LET hc == FatSlot(disk.fat, currentCluster)
          bc == FatSlot(disk.fat, kernel_cluster)
      IN  /\ (pc = "h_readFile" /\ pc' \in {"h_readFile", "h_ret"} /\ ok'
                /\ InFat(disk, currentCluster))
             => /\ (pc' = "h_ret") <=> (hc >= EOC_MIN /\ hc < MASK12)
                /\ hc < EOC_MIN => currentCluster' = hc
          /\ (pc = "h_readFile" /\ ioTick' # ioTick)
             => /\ ioLast'.lba = FmtClusterLba(disk.bpb, currentCluster)
                /\ ioLast'.count = disk.bpb.SectorsPerCluster
          /\ (pc = "b_next" /\ pc' \in {"b_loop", "b_read_finish"}
                /\ InFat(disk, kernel_cluster))
             => /\ (pc' = "b_read_finish") <=> (bc >= EOC_MIN /\ bc < MASK12)
                /\ bc < EOC_MIN => kernel_cluster' = bc
          /\ (pc = "b_loop" /\ pc' = "b_int13")
             => dr'.lba = FmtClusterLba(disk.bpb, kernel_cluster)
          /\ (pc = "b_int13" /\ dr.dest = "kernel")
             => (ioLast'.lba = dr.lba /\ ioLast'.count = disk.bpb.SectorsPerCluster)
    ]_vars

\* C4 witness: the walk has read a cluster, found the reserved value 1 as its
\* entry and is about to read cluster 1
C4_Witness ==
  \/ pc = "h_readFile" /\ outputBuffer > 0 /\ currentCluster = 1
  \/ pc = "b_loop" /\ BX > 0 /\ kernel_cluster = 1

\* C5: a failed cluster read ends the walk at once.  fat12read: readFile
\* returns false (main exits with 8) and no further sector read is issued,
\* nothing more lands in the file buffer, nothing is printed.  boot.asm: a
\* failed attempt is only ever followed by an attempt at the same sector, and
\* when disk_read gives up the boot sector is in floppy_error, from where no
\* sector is read and nothing is loaded any more.
C5_ReadFailureEndsTheWalk ==
  [][ /\ (ctx = "hosted" /\ clusterRead' /\ ~ioLast'.ok)
         => /\ ~ok'
            /\ pc' \in {"h_ret", "h_exit", "h_crash"}
            /\ pc' = "h_exit" => exitCode' = 8
      /\ (ctx = "hosted" /\ clusterRead /\ ~ioLast.ok)
         => (ioTick' = ioTick /\ mainBuffer' = mainBuffer /\ stdoutBytes' = stdoutBytes)
      /\ (pc = "b_reset" /\ dr.dest = "kernel")
         => \/ pc' = "b_int13" /\ dr'.lba = dr.lba /\ kernel_cluster' = kernel_cluster
            \/ pc' = "b_floppy_error"
            \/ pc' = pc
      /\ pc \in {"b_floppy_error", "b_wait_key", "b_reboot"}
         => /\ ioTick' = ioTick /\ mem' = mem
            /\ pc' \in {pc, "b_wait_key", "b_reboot"}
      /\ pc = "b_floppy_error" => message' \in {message, "read_failed"}
    ]_vars

\* C5 witness: a cluster was loaded, the read of a later one failed, and the
\* program ended on its error path
C5_Witness ==
  \/ pc = "h_exit" /\ exitCode = 8 /\ mainBuffer.m # NoMem /\ ~ioLast.ok
  \/ pc = "b_reboot" /\ message = "read_failed" /\ mem # NoMem /\ ~ioLast.ok

\* bit n of the table, counted from the low bit of byte 0
TableBit(d, n) == (TableByte(d, n \div 8) \div 2 ^ (n % 8)) % 2

\* the i-th 12-bit field of the table
Field12(d, i) ==
  LET RECURSIVE bits(_)
      bits(j) == IF j = 12 THEN 0 ELSE TableBit(d, 12 * i + j) * 2 ^ j + bits(j + 1)
  IN  bits(0)

\* the 16-bit little-endian word at byte offset off
TableWord(d, off) == TableByte(d, off) + 256 * TableByte(d, off + 1)

SpecExampleTable ==
  dec.base = 0 /\ SubSeq(dec.bytes, 1, 3) = <<52, 18, 86>>

\* C7 (as stated): with the table starting 0x34, 0x12, 0x56 the decode of
\* cluster 0 is 0x234 and the decode of cluster 1 is 0x156.
C7_ExampleAsStated ==
  (pc = "d_done" /\ SpecExampleTable)
  => /\ dec.i = 0 => (dec.c = 564 /\ dec.asm = 564)
     /\ dec.i = 1 => (dec.c = 342 /\ dec.asm = 342)

\* C7 (amended): with the table starting 0x34, 0x12, 0x56 the decode of
\* cluster 0 is 0x234 and the decode of cluster 1 is 0x561, in both programs.
C7_ExampleAsDecoded ==
  (pc = "d_done" /\ SpecExampleTable)
  => /\ dec.i = 0 => (dec.c = 564 /\ dec.asm = 564)
     /\ dec.i = 1 => (dec.c = 1377 /\ dec.asm = 1377)

\* C7 witness: cluster 1 of the example table has been decoded
C7_Witness ==
  pc = "d_done" /\ SpecExampleTable /\ dec.i = 1

\* C8: the directory search yields the entry with the smallest index below
\* the root directory's entry count whose 11 name bytes equal the key, and
\* "not found" when there is none: a slot at or after the entry count is
\* never returned even if it carries the key, and of two entries with the
\* key the first one is taken.  fat12read goes on with that entry's first
\* cluster and size, boot.asm with its first cluster.
C8_SearchFindsTheFirstMatch ==
  /\ (ctx = "hosted" /\ pc \in {"h_alloc", "h_readFile", "h_ret", "h_print", "h_crash"})
     => (fileEntry # NULL /\ fileEntry = DirLookup(disk, name11))
  /\ (ctx = "hosted" /\ pc = "h_exit" /\ exitCode \in {0, 7, 8})
     => (fileEntry # NULL /\ fileEntry = DirLookup(disk, name11))
  /\ (ctx = "hosted" /\ pc = "h_exit" /\ exitCode = 6)
     => (fileEntry = NULL /\ DirLookup(disk, name11) = NULL)
  /\ (pc = "h_readFile" /\ outputBuffer = 0)
     => (currentCluster = TheEntry.FirstClusterLow /\ fileSize = TheEntry.Size)
  /\ pc = "b_found" => DirLookup(disk, name11) # NULL
  /\ (pc = "b_int13" /\ dr.ret = "b_load")
     => (DirLookup(disk, name11) # NULL /\ kernel_cluster = TheEntry.FirstClusterLow)
  /\ pc = "b_kernel_not_found" => DirLookup(disk, name11) = NULL

\* C8 witness: the key is in slots 1 and 3 and the search has returned
C8_Witness ==
  /\ {1, 3} \subseteq DOMAIN disk.dir
  /\ \/ pc = "h_alloc" /\ fileEntry = 1
     \/ pc = "b_int13" /\ dr.ret = "b_load" /\ kernel_cluster = disk.dir[1].FirstClusterLow

\* C9: when no root-directory entry below the entry count carries the name,
\* the search ends in "not found" (fat12read exits with 6, boot.asm prints
\* its not-found message and waits for a key), and at no point of such a run
\* has a data-area sector been read, a file buffer been allocated, a byte been
\* printed or loaded at 0x2000:0, or control been handed to a loaded file.
C9_NotFoundHasNoSideEffects ==
  [][ DirLookup(disk, name11) = NULL
      => /\ ~clusterRead'
         /\ ioLast'.lba < FmtDataLba(disk.bpb)
         /\ mainBuffer' = NullBuf /\ stdoutBytes' = 0 /\ mem' = NoMem
         /\ pc' \notin {"h_alloc", "h_readFile", "h_ret", "h_print", "h_crash",
                        "b_found", "b_load", "b_loop", "b_next", "b_read_finish",
                        "b_kernel", "b_divide_error"}
         /\ pc' = "h_exit" => exitCode' \in 1..6
         /\ pc = "h_find" => (pc' = "h_exit" /\ exitCode' = 6)
         /\ pc = "b_search" => pc' = "b_kernel_not_found"
         /\ pc = "b_kernel_not_found" => (pc' = "b_wait_key" /\ message' = "not_found")
    ]_vars

\* C9 witness: the search ran on a directory without the name and the
\* program reported it
C9_Witness ==
  /\ DirLookup(disk, name11) = NULL
  /\ \/ pc = "h_exit" /\ exitCode = 6
     \/ pc = "b_reboot" /\ message = "not_found"

\* disk_read has been entered and ended in floppy_error
DiskReadGaveUp == pc = "b_floppy_error" /\ dr.dest # "none"

\* C10 (as stated): disk_read ends in floppy_error only after all 3 read
\* attempts have failed.
C10_FailsOnlyAfterThreeAttempts == DiskReadGaveUp => dr.attempts = 3

\* C10 (amended): a sector read is attempted at most 3 times; every failed
\* attempt is followed by a controller reset, and an attempt after the first
\* is made only when the reset before it succeeded.  An attempt that succeeds,
\* be it the first, second or third, returns to the caller with the sectors
\* loaded.  disk_read ends in floppy_error when the third attempt has failed
\* or when the reset after a failed attempt fails itself.
C10_ThreeAttemptsWithResets ==
  [][ /\ (pc = "b_int13" /\ pc' # pc)
         => /\ ioTick' # ioTick
            /\ dr'.attempts = dr.attempts + 1 /\ dr'.attempts <= 3
            /\ dr.resets = dr.attempts
            /\ ioLast'.ok
               => /\ pc' = dr.ret
                  /\ ioLast'.lba = dr.lba /\ ioLast'.count = dr.count
                  /\ dr.dest = "buffer" => buffer'[0] = dr.lba
                  /\ dr.dest = "kernel"
                     => mem'[(ES * 16 + BX) \div bdb_bytes_per_sector] = dr.lba
            /\ ~ioLast'.ok => pc' = "b_reset"
      /\ (pc = "b_reset" /\ pc' # pc)
         => /\ ~ioLast.ok /\ ioTick' = ioTick
            /\ \/ pc' = "b_int13" /\ dr'.resets = dr.resets + 1 /\ dr.attempts < 3
               \/ pc' = "b_floppy_error" /\ dr'.resets = dr.resets + 1 /\ dr.attempts = 3
               \/ pc' = "b_floppy_error" /\ dr'.resets = dr.resets /\ dr.attempts <= 3
      /\ (pc' = "b_floppy_error" /\ pc # pc') => pc \in {"b_start", "b_reset"}
    ]_vars

\* C10 witness: a read that failed twice has succeeded on the third attempt
\* and disk_read has returned to its caller
C10_Witness ==
  dr.attempts = 3 /\ dr.resets = 2 /\ ioLast.ok /\ pc = dr.ret

\* the FAT as the medium stores it is in the hosted reader's FAT buffer
HostedFatLoaded ==
  /\ g_Fat.size = disk.bpb.SectorsPerFat * disk.bpb.BytesPerSector
  /\ DOMAIN g_Fat.m = 0..(disk.bpb.SectorsPerFat - 1)
  /\ \A k \in DOMAIN g_Fat.m : g_Fat.m[k] = disk.bpb.ReservedSectors + k

\* the root directory as the medium stores it is in the hosted reader's buffer
HostedRootLoaded ==
  /\ DOMAIN g_RootDirectory.m = 0..(FmtRootSectors(disk.bpb) - 1)
  /\ \A k \in DOMAIN g_RootDirectory.m : g_RootDirectory.m[k] = FmtRootLba(disk.bpb) + k

\* `buffer` starts with the first sector of the root directory / of the FAT
BootRootLoaded == 0 \in DOMAIN buffer /\ buffer[0] = FmtRootLba(disk.bpb)
BootFatLoaded == 0 \in DOMAIN buffer /\ buffer[0] = disk.bpb.ReservedSectors

\* C11 (as stated): the stages run in the order parse BPB, load FAT, load
\* root directory, find file, materialize: when the directory search starts,
\* the FAT and the root directory have been loaded.
C11_SearchStartsAfterFatLoad ==
  /\ pc = "h_find" => (HostedFatLoaded /\ HostedRootLoaded)
  /\ pc = "b_search" => BootFatLoaded

\* C11 (amended): fat12read runs parse BPB, load FAT, load root directory,
\* find file, allocate, read file, in this order; boot.asm runs load root
\* directory, find file, load FAT, load clusters, in this order.  In both a
\* stage is entered only from the stage before it and only when that stage
\* has succeeded, and after a failure no later stage runs: the failing run
\* goes to its exit or error path with the state of the later stages
\* untouched.
C11_StagesInOrderFailFast ==
  [][ pc' # pc
      => /\ pc' = "h_boot" => pc = "h_open"
         /\ pc' = "h_fat" => (pc = "h_boot" /\ g_BootSector' = disk.bpb)
         /\ pc' = "h_root" => (pc = "h_fat" /\ ioLast'.ok /\ HostedFatLoaded')
         /\ pc' = "h_find"
            => (pc = "h_root" /\ ioLast'.ok /\ HostedFatLoaded' /\ HostedRootLoaded')
         /\ pc' = "h_alloc" => (pc = "h_find" /\ fileEntry' # NULL)
         /\ pc' = "h_readFile"
            => (pc \in {"h_alloc", "h_readFile"} /\ mainBuffer'.size >= 0 /\ ok')
         /\ pc' = "h_ret" => pc = "h_readFile"
         /\ pc' = "h_print" => (pc = "h_ret" /\ ok)
         /\ (pc' = "h_exit" /\ exitCode' # 0)
            => /\ outputBuffer' = outputBuffer /\ stdoutBytes' = 0
               /\ pc \in {"h_args", "h_open", "h_boot"}
                  => (g_Fat' = NullBuf /\ ioTick' = ioTick)
               /\ pc \in {"h_args", "h_open", "h_boot", "h_fat"}
                  => g_RootDirectory' = NullBuf
               /\ pc \in {"h_args", "h_open", "h_boot", "h_fat", "h_root"}
                  => fileEntry' = NULL
               /\ pc # "h_ret" => (mainBuffer' = NullBuf /\ ~clusterRead')
         /\ pc' = "b_rootdir" => pc = "b_start"
         /\ pc' = "b_search" => (pc = "b_int13" /\ ioLast'.ok /\ BootRootLoaded')
         /\ pc' = "b_found" => pc = "b_search"
         /\ (pc' = "b_int13" /\ dr'.ret = "b_search") => pc \in {"b_rootdir", "b_reset"}
         /\ (pc' = "b_int13" /\ dr'.ret = "b_load") => pc \in {"b_found", "b_reset"}
         /\ (pc' = "b_int13" /\ dr'.ret = "b_next") => pc \in {"b_loop", "b_reset"}
         /\ pc' = "b_load" => (pc = "b_int13" /\ ioLast'.ok /\ BootFatLoaded')
         /\ pc' = "b_loop" => (pc \in {"b_load", "b_next"} /\ BootFatLoaded')
         /\ pc' = "b_next" => (pc = "b_int13" /\ ioLast'.ok)
         /\ pc' = "b_read_finish" => pc = "b_next"
         /\ pc' = "b_kernel" => pc = "b_read_finish"
         /\ pc \in {"b_floppy_error", "b_kernel_not_found", "b_wait_key"}
            => /\ pc' \in {"b_wait_key", "b_reboot"}
               /\ UNCHANGED <<ioVars, buffer, kernel_cluster, mem, dr>>
    ]_vars

\* C11 witness: the boot sector stands at its last stage, the cluster loads,
\* with the root directory search behind it and the FAT in `buffer`
C11_Witness ==
  pc = "b_loop" /\ BX = 0 /\ mem = NoMem /\ BootFatLoaded

\* every step of main has succeeded: the arguments are there, the FAT and the
\* root directory are loaded, the entry is found, the buffer is allocated and
\* readFile has walked the chain to its end without a failed read
HostedAllStagesSucceeded ==
  /\ argc >= 3
  /\ g_BootSector = disk.bpb
  /\ HostedFatLoaded /\ HostedRootLoaded
  /\ fileEntry # NULL
  /\ mainBuffer.size >= 0
  /\ ok /\ clusterRead /\ ioLast.ok /\ currentCluster >= EOC_MIN

\* C12 (as stated): fat12read ends with exit code 0 exactly when every step
\* succeeded, and otherwise with one of the codes 1..8.
C12_ExitCodeZeroIffAllSucceed ==
  (ctx = "hosted" /\ pc \in {"h_exit", "h_crash"})
  => /\ exitCode \in 0..8
     /\ exitCode = 0 <=> HostedAllStagesSucceeded

\* malloc returned NULL in readFat / in readRootDirectory: the stage before
\* has succeeded and the buffer pointer is still NULL at exit
HostedFatAllocFailed ==
  pc = "h_exit" /\ g_BootSector = disk.bpb /\ g_Fat = NullBuf
HostedRootAllocFailed ==
  pc = "h_exit" /\ HostedFatLoaded /\ g_RootDirectory = NullBuf

\* C13 (as stated): a failed allocation of the FAT buffer or of the root
\* directory buffer ends fat12read with exit code 7, and the codes 4 and 5
\* are given only when the sector read itself failed.
C13_AllocationFailureIsCode7 ==
  /\ (HostedFatAllocFailed \/ HostedRootAllocFailed) => exitCode = 7
  /\ (ctx = "hosted" /\ pc = "h_exit" /\ exitCode \in {4, 5}) => (ioLast.lba >= 0 /\ ~ioLast.ok)

\* the fields of the boot sector's parameter block that boot.asm stores to
BootBpbFields == <<bdb_sectors_per_track, bdb_heads, ebr_drive_number>>

\* C14 (as stated): once the boot sector has been read, no field of the BPB
\* changes for the rest of the run, in fat12read and in boot.asm (whose boot
\* sector the BIOS has read before its first instruction runs).
C14_BpbNeverMutated ==
  [][ /\ g_BootSector # NoBpb => g_BootSector' = g_BootSector
      /\ ctx = "boot" => UNCHANGED BootBpbFields
    ]_vars

\* C14 (amended): fat12read fills its BPB once, from the medium, and never
\* changes it afterwards.  boot.asm overwrites three fields of its BPB at
\* start: the drive number with the one the BIOS passes in DL, and, when the
\* geometry query succeeds, sectors per track and the low byte of the head
\* count with what the BIOS reports; after start no field changes.  (The
\* other fields are never stored to: bytes per sector, sectors per cluster,
\* reserved sectors, FAT count, root entry count, sectors per FAT.)
C14_BpbSetAtStartOnly ==
  [][ /\ g_BootSector # NoBpb => g_BootSector' = g_BootSector
      /\ g_BootSector' # g_BootSector => (pc = "h_boot" /\ g_BootSector' = disk.bpb)
      /\ (ctx = "boot" /\ pc # "b_start") => UNCHANGED BootBpbFields
      /\ (pc = "b_start" /\ pc' # pc)
         => /\ ebr_drive_number' = disk.drive
            /\ \/ /\ pc' = "b_rootdir"
                  /\ bdb_sectors_per_track' = disk.geom.spt
                  /\ bdb_heads' = disk.geom.heads
               \/ /\ pc' = "b_floppy_error"
                  /\ UNCHANGED <<bdb_sectors_per_track, bdb_heads>>
    ]_vars

\* C14 witness: the boot sector was started from a hard disk and has replaced
\* the assembled drive number and geometry
C14_Witness ==
  /\ pc = "b_search"
  /\ ebr_drive_number = 128 /\ bdb_sectors_per_track = 63 /\ bdb_heads = 16

\* ---------------------------------------------------------------------------
\* C15: the in-memory FAT and root directory after they were loaded

\* the sectors of `buffer` past the FAT still hold the tail of the root
\* directory that was read there first
BootRootTailKept ==
  \A s \in bdb_sectors_per_fat ..
           (RootDirSectorsAsm(bdb_dir_entries_count, bdb_bytes_per_sector) - 1) :
     s \in DOMAIN buffer /\ buffer[s] = FmtRootLba(StdBpb) + s

\* C15 (as stated): once the FAT or the root directory is in memory, no
\* operation, loading the other snapshot included, changes its bytes.
C15_SnapshotsNeverChange ==
  [][ /\ (g_Fat.m # NoMem => g_Fat' = g_Fat)
      /\ (g_RootDirectory.m # NoMem => g_RootDirectory' = g_RootDirectory)
      /\ (buffer # NoMem => buffer' = buffer) ]_vars

\* C15 (amended): in the hosted reader the FAT buffer and the root directory
\* buffer are each filled by their own load and no later step changes them.
\* In the boot sector `buffer` holds the root directory from its read until
\* the kernel entry was found; the FAT read then overwrites the first
\* sectors of the root directory in the same `buffer` and leaves its tail;
\* from then on `buffer` is unchanged, cluster reads write kernel memory only.
C15_SnapshotsChangeOnlyByTheirLoad ==
  [][ /\ (g_Fat.m # NoMem => g_Fat' = g_Fat)
      /\ (g_Fat' # g_Fat => pc = "h_fat" /\ g_RootDirectory' = g_RootDirectory)
      /\ (g_RootDirectory.m # NoMem => g_RootDirectory' = g_RootDirectory)
      /\ (g_RootDirectory' # g_RootDirectory => pc = "h_root" /\ g_Fat' = g_Fat)
      /\ (pc \in {"h_find", "h_alloc", "h_read", "h_read_ret", "h_print"}
            => g_Fat' = g_Fat /\ g_RootDirectory' = g_RootDirectory)
      /\ (buffer' # buffer =>
            /\ pc = "b_int13" /\ dr.dest = "buffer" /\ ioLast'.ok
            /\ \/ /\ dr.ret = "b_search"
                  /\ buffer = NoMem
                  /\ BootRootLoaded'
                  /\ BootRootTailKept'
               \/ /\ dr.ret # "b_search"
                  /\ BootRootLoaded
                  /\ BootFatLoaded'
                  /\ \A s \in 0..(bdb_sectors_per_fat - 1) :
                        buffer'[s] = bdb_reserved_sectors + s
                  /\ \A s \in DOMAIN buffer :
                        s >= bdb_sectors_per_fat => (s \in DOMAIN buffer' /\ buffer'[s] = buffer[s])
                  /\ BootRootTailKept')
      /\ (BootFatLoaded => buffer' = buffer)
      /\ (dr.dest = "kernel" => buffer' = buffer) ]_vars

\* the FAT is in `buffer`, the tail of the root directory is still behind it
\* and kernel clusters are being read
C15_Witness ==
  /\ ctx = "boot" /\ BootFatLoaded /\ BootRootTailKept
  /\ mem # NoMem /\ pc = "b_next"

\* ---------------------------------------------------------------------------
\* C16: the cluster to LBA mapping

CeilDiv(x, y) == (x + y - 1) \div y

\* dataAreaStartLba as the claim writes it
DataAreaStartLba(bpb) ==
  bpb.ReservedSectors + bpb.FatCount * bpb.SectorsPerFat
    + CeilDiv(bpb.DirEntryCount * 32, bpb.BytesPerSector)

\* lba(cluster) as the claim writes it
ClaimedLba(bpb, cluster) == DataAreaStartLba(bpb) + (cluster - 2) * bpb.SectorsPerCluster

\* C16 (as stated): for every valid BPB the hosted reader and the boot loader
\* both read cluster N from dataAreaStartLba + (N - 2) * sectorsPerCluster.
C16_BothReadClusterAtFormulaLba ==
  (calc.kind = "lba" /\ pc = "g_done")
    => /\ calc.lbaC = ClaimedLba(calc.bpb, calc.cluster)
       /\ calc.lbaAsm = ClaimedLba(calc.bpb, calc.cluster)

\* C16 (amended): for every valid BPB the hosted reader reads cluster N from
\* dataAreaStartLba + (N - 2) * sectorsPerCluster, so cluster 2 from
\* dataAreaStartLba; the boot loader reads cluster N from LBA N + 31, which
\* is that LBA when the data area starts at sector 33 and a cluster is one
\* sector, as in the BPB assembled into the boot sector.
C16_HostedFormulaBootPlus31 ==
  /\ (calc.kind = "lba" /\ pc \in {"g_lba_asm", "g_done"})
       => /\ calc.rootEndC = DataAreaStartLba(calc.bpb)
          /\ calc.lbaC = ClaimedLba(calc.bpb, calc.cluster)
          /\ (calc.cluster = 2 => calc.lbaC = DataAreaStartLba(calc.bpb))
  /\ (calc.kind = "lba" /\ pc = "g_done")
       => /\ calc.lbaAsm = calc.cluster + 31
          /\ ((DataAreaStartLba(calc.bpb) = 33 /\ calc.bpb.SectorsPerCluster = 1)
                => calc.lbaAsm = ClaimedLba(calc.bpb, calc.cluster))
          /\ (calc.bpb = StdBpb => calc.lbaAsm = calc.lbaC)

\* both mappings were applied to cluster 4 of a volume with the assembled
\* BPB and gave sector 35
C16_Witness ==
  /\ calc.kind = "lba" /\ pc = "g_done" /\ calc.bpb = StdBpb /\ calc.cluster = 4
  /\ calc.lbaC = 35 /\ calc.lbaAsm = 35

\* ---------------------------------------------------------------------------
\* C17: the root directory size in sectors

\* C17: for every root directory entry count (16 bits) and every sector size
\* above zero, the hosted reader and the boot sector both compute
\* ceil(entries * 32 / bytesPerSector) sectors for the root directory.
C17_RootDirSectorsRoundUp ==
  (calc.kind = "root" /\ pc = "g_done")
    => /\ calc.sectorsC = CeilDiv(calc.bpb.DirEntryCount * 32, calc.bpb.BytesPerSector)
       /\ calc.sectorsAsm = CeilDiv(calc.bpb.DirEntryCount * 32, calc.bpb.BytesPerSector)

\* ---------------------------------------------------------------------------
\* C18: lba_to_chs

\* what the registers after lba_to_chs say
ChsSector == calc.chs.cl % 64
ChsCylinder == calc.chs.ch + 256 * (calc.chs.cl \div 64)
ChsHead == calc.chs.dh

\* C18: for every LBA of the medium lba_to_chs yields sector = lba % spt + 1
\* in CL bits 0-5, head = (lba / spt) % heads in DH and cylinder =
\* (lba / spt) / heads with its low 8 bits in CH and its top 2 bits in CL
\* bits 6-7; DL is what it was on entry; and the LBA can be computed back as
\* (cylinder * heads + head) * spt + sector - 1.
C18_LbaToChs ==
  (calc.kind = "chs" /\ pc = "g_done")
    => /\ ChsSector = (calc.lba % calc.spt) + 1
       /\ ChsHead = (calc.lba \div calc.spt) % calc.heads
       /\ ChsCylinder = (calc.lba \div calc.spt) \div calc.heads
       /\ calc.chs.ch = ((calc.lba \div calc.spt) \div calc.heads) % 256
       /\ calc.chs.cl \div 64 = ((calc.lba \div calc.spt) \div calc.heads) \div 256
       /\ calc.chs.dl = calc.dx % 256
       /\ (ChsCylinder * calc.heads + ChsHead) * calc.spt + ChsSector - 1 = calc.lba

\* an LBA beyond cylinder 255 on a drive with 17 sectors per track and 4
\* heads, converted with the drive number 0x80 in DL
C18_Witness ==
  /\ calc.kind = "chs" /\ pc = "g_done"
  /\ calc.spt = 17 /\ calc.heads = 4 /\ calc.lba = 40821
  /\ calc.chs = [ch |-> 88, cl |-> 133, dh |-> 1, dl |-> 128]

\* ---------------------------------------------------------------------------
\* C19: errors of the boot sector, and the jump to the kernel

\* C19: in the boot sector a failed geometry query, a sector read that failed
\* on every attempt, a failed controller reset and a root directory without
\* KERNEL.BIN each lead to the error handler, which prints its message and
\* goes to wait_key_and_reboot; the jump to 0x2000:0 is taken only after the
\* root directory read, the search, the FAT read and every cluster read have
\* succeeded, and never after an error message.
C19_ErrorsRebootJumpAfterSuccess ==
  [][ ctx = "boot" =>
        /\ (pc = "b_start" /\ pc' # "b_rootdir") => pc' = "b_floppy_error"
        /\ (pc = "b_int13" /\ ~ioLast'.ok) => pc' = "b_reset"
        /\ (pc = "b_reset" /\ (di' = 0 \/ dr' = dr)) => pc' = "b_floppy_error"
        /\ (pc = "b_search" /\ DirLookup(disk, file_kernel_bin) = NULL)
             => pc' = "b_kernel_not_found"
        /\ pc = "b_floppy_error" => (message' = "read_failed" /\ pc' = "b_wait_key")
        /\ pc = "b_kernel_not_found" => (message' = "not_found" /\ pc' = "b_wait_key")
        /\ pc = "b_wait_key" => pc' = "b_reboot"
        /\ message \in {"read_failed", "not_found"} => pc \in {"b_wait_key", "b_reboot"}
        /\ pc' \in {"b_search", "b_load", "b_next"}
             => (pc = "b_int13" /\ ioLast'.ok /\ pc' = dr.ret)
        /\ pc' = "b_search" => BootRootLoaded'
        /\ pc' = "b_found" => (pc = "b_search" /\ DirLookup(disk, file_kernel_bin) # NULL)
        /\ pc' = "b_load" => (BootFatLoaded' /\ DirLookup(disk, file_kernel_bin) # NULL)
        /\ pc' = "b_loop" => pc \in {"b_load", "b_next"}
        /\ pc' = "b_read_finish" => pc = "b_next"
        /\ pc' = "b_kernel"
             => /\ pc = "b_read_finish"
                /\ message = "loading"
                /\ DirLookup(disk, file_kernel_bin) # NULL
                /\ BootFatLoaded
                /\ clusterRead /\ ioLast.ok /\ dr.dest = "kernel"
                /\ mem # NoMem
                /\ ES' = KERNEL_LOAD_SEGMENT ]_vars

\* a cluster read failed on all its attempts after the root directory and the
\* FAT had been read: the message was printed and the machine reboots
C19_Witness ==
  /\ ctx = "boot" /\ pc = "b_reboot" /\ message = "read_failed"
  /\ dr.dest = "kernel" /\ di = 0 /\ dr.attempts = RETRY_COUNT
  /\ BootFatLoaded

\* ---------------------------------------------------------------------------
\* C20: what the hosted tool writes to standard output

\* the hexadecimal digit of n (0..15), upper case
UpperHex(n) == IF n < 10 THEN 48 + n ELSE 65 + (n - 10)

\* a byte as the claim says it is written
ClaimedPiece(b) ==
  IF b >= 32 /\ b <= 126 THEN <<b>> ELSE <<60, UpperHex(b \div 16), UpperHex(b % 16), 62>>

\* the run ended without exit code 0
HostedFailed == ctx = "hosted" /\ pc \in {"h_exit", "h_crash"} /\ exitCode # 0

\* on success standard output holds the first fileSize bytes of the buffer
\* in the claimed format and one newline after them
DumpAsClaimed ==
  (ctx = "hosted" /\ pc = "h_exit" /\ exitCode = 0)
    => /\ Len(stdout) = fileSize + 1
       /\ fileSize = EntrySize(disk, g_RootDirectory, g_BootSector.BytesPerSector, fileEntry)
       /\ \A k \in 1..fileSize :
            stdout[k] = ClaimedPiece(BufferByte(disk, mainBuffer,
                                                g_BootSector.BytesPerSector, k - 1))
       /\ stdout[fileSize + 1] = <<10>>

\* C20: on success the hosted tool writes each of the first sizeBytes bytes
\* of the file, a printable ASCII byte as itself and any other byte as <XX>
\* with two upper-case hex digits, and exactly one newline after them; on
\* any failure nothing is written to standard output.
C20_DumpOnSuccessNothingOnFailure ==
  /\ DumpAsClaimed
  /\ HostedFailed => stdout = << >>

\* ---------------------------------------------------------------------------
\* C21: readSectors on the image file

\* the image file holds the bytes of sectors lba .. lba + count - 1
WholeSectorsInImage(lba, count) ==
  /\ lba >= 0
  /\ (lba + count) * disk.bpb.BytesPerSector
       <= disk.bpb.TotalSectors * disk.bpb.BytesPerSector

\* slots s0 .. s0 + count - 1 of a buffer hold sectors lba .. lba + count - 1
HoldsSectors(m, s0, lba, count) ==
  \A s \in 0..(count - 1) : (s0 + s) \in DOMAIN m /\ m[s0 + s] = lba + s

C22_CursorInsideScreen ==
  ctx = "vga" =>
    /\ vga_x >= 0 /\ vga_x <= 79
    /\ vga_y >= 0 /\ vga_y <= 24
    /\ \A i \in vga_cells : i >= 0 /\ i <= 1999

\* a character was written to the last cell of the screen: the line wrapped
\* and the screen scrolled
C22_Witness ==
  /\ ctx = "vga" /\ pc = "v_putchar"
  /\ vga_x = 0 /\ vga_y = 24
  /\ 1999 \in vga_cells /\ 0 \in vga_cells

\* ---------------------------------------------------------------------------
\* C23: keyboard_readline

\* C23: for every max_length, 0 and 1 included, keyboard_readline stores
\* into at most the first max_length bytes of the caller's buffer, returns
\* a count below max_length and leaves a NUL at index count.
C23_ReadlineWithinMaxLength ==
  ctx = "readline" =>
    /\ \A i \in DOMAIN rl.buffer : i >= 0 /\ i < rl.max_length
    /\ rl.ret # NULL =>
         /\ rl.ret < rl.max_length
         /\ rl.ret \in DOMAIN rl.buffer
         /\ rl.buffer[rl.ret] = 0

(***************************************************************************)
(* The two walkers side by side                                            *)
(***************************************************************************)
\* the standard 1.44 MB layout and the kernel's name
StdLayout == disk.bpb = StdBpb /\ name11 = file_kernel_bin

\* the raw FAT entry of a cluster on the medium
RawNext(c) == FatSlot(disk.fat, c)

\* C24: on the standard layout fat12read and boot.asm walk the same way:
\* both select the first root-directory entry named "KERNEL  BIN" (or none),
\* both start at its first cluster, every pass of either loop reads the
\* sector 31 + cluster, both go on to the cluster's FAT entry after a
\* successful read and stop when it is 0xFF8 or more, and both end the walk
\* only there or at a read that failed.
C24_SameEntrySameReads ==
  [][ StdLayout =>
        LET hit == DirLookup(disk, file_kernel_bin)
        IN  /\ pc = "h_find" => fileEntry' = hit
            /\ pc = "b_search" => (pc' = "b_found" <=> hit # NULL)
            /\ (pc = "h_alloc" /\ pc' = "h_readFile")
               => currentCluster' = disk.dir[hit].FirstClusterLow
            /\ pc = "b_found" => kernel_cluster' = disk.dir[hit].FirstClusterLow
            /\ pc = "h_readFile"
               => /\ ioTick' # ioTick
                  /\ ioLast'.lba = FmtClusterLba(StdBpb, currentCluster)
                  /\ ioLast'.count = 1
                  /\ IF ioLast'.ok /\ RawNext(currentCluster) < EOC_MIN
                     THEN pc' = "h_readFile" /\ currentCluster' = RawNext(currentCluster)
                     ELSE pc' = "h_ret" /\ ok' = ioLast'.ok
            /\ pc = "b_loop"
               => (pc' = "b_int13" /\ dr'.lba = FmtClusterLba(StdBpb, kernel_cluster)
                     /\ dr'.count = 1)
            /\ (pc = "b_int13" /\ dr.dest = "kernel")
               => IF ioLast'.ok
                  THEN ioLast'.lba = dr.lba /\ pc' = "b_next"
                  ELSE pc' = "b_reset"
            /\ (pc = "b_reset" /\ dr.dest = "kernel")
               => \/ pc' = "b_int13" /\ dr'.lba = dr.lba /\ kernel_cluster' = kernel_cluster
                  \/ pc' = "b_floppy_error"
            /\ pc = "b_next"
               => IF RawNext(kernel_cluster) < EOC_MIN
                  THEN pc' = "b_loop" /\ kernel_cluster' = RawNext(kernel_cluster)
                  ELSE pc' = "b_read_finish"
    ]_vars

\* C25: readFile never writes outside the buffer main allocated: the bytes
\* its chain walk has stored are at most entry.Size + BytesPerSector, for
\* every directory entry, FAT content and parameter block.
C25_WritesStayInsideBuffer ==
  (ctx = "hosted" /\ mainBuffer # NullBuf)
    => Cardinality(DOMAIN mainBuffer.m) * g_BootSector.BytesPerSector <= mainBuffer.size

\* C26: every FAT lookup of the chain walkers reads its two bytes, at
\* offsets floor(cluster * 3 / 2) and the next one, inside the loaded FAT of
\* SectorsPerFat * BytesPerSector bytes, whatever first cluster the
\* directory entry names and whatever values below 0xFF8 the FAT holds.
C26_FatLookupsInsideFat ==
  [][ /\ (pc = "h_readFile" /\ outputBuffer' # outputBuffer)
         => /\ FatIndex(currentCluster) >= 0
            /\ FatIndex(currentCluster) + 1
                 < g_BootSector.SectorsPerFat * g_BootSector.BytesPerSector
      /\ (pc = "b_next" /\ pc' \in {"b_loop", "b_read_finish"})
         => AsmFatOffset(kernel_cluster).ax + 1 < bdb_sectors_per_fat * bdb_bytes_per_sector
    ]_vars

\* the linear address ES:BX points at
LinearAddress(es, bx) == es * 16 + bx

\* C27: the boot loader stores the k-th cluster of the kernel's chain at
\* linear address 0x20000 + k * bytesPerSector: the load starts at 0x20000,
\* each cluster's destination lies one sector above the one before, and no
\* cluster is stored where an earlier one was, however long the chain is.
C27_DestinationsStrictlyIncrease ==
  [][ /\ pc = "b_load" => LinearAddress(ES', BX') = 2 * W16
      /\ pc = "b_next"
         => LinearAddress(ES', BX') = LinearAddress(ES, BX) + bdb_bytes_per_sector
      /\ (pc = "b_int13" /\ dr.dest = "kernel" /\ ioLast'.ok)
         => /\ LinearAddress(ES, BX) \div bdb_bytes_per_sector \notin DOMAIN mem
            /\ LinearAddress(ES, BX) \div bdb_bytes_per_sector \in DOMAIN mem'
    ]_vars

(***************************************************************************)
(* The keyboard ring buffer                                                *)
(***************************************************************************)
\* the drivers that have a keyboard_getchar
RingDrivers == {"kernel/keyboard.c", "unnamed/part_009"}

\* 0 <= buffer_size <= 256 and buffer_end = (buffer_start + buffer_size) mod 256
RingConsistent ==
  /\ ULess(buffer_size, KEYBOARD_BUFFER_SIZE + 1)
  /\ buffer_end = (buffer_start + buffer_size) % KEYBOARD_BUFFER_SIZE

\* C28: however keyboard interrupts interleave with keyboard_getchar, the
\* ring buffer keeps 0 <= buffer_size <= 256 and buffer_end = (buffer_start +
\* buffer_size) mod 256, and keyboard_getchar takes a character out only
\* when buffer_size > 0.
C28_RingBufferConsistent ==
  [][ (ctx = "keyboard" /\ kbd_driver \in RingDrivers)
        => /\ RingConsistent
           /\ RingConsistent'
           /\ buffer_start' # buffer_start => buffer_size # 0
    ]_vars

\* the unread part of the ring buffer, oldest first
Unread == [k \in 1..buffer_size |-> KbByte((buffer_start + k - 1) % KEYBOARD_BUFFER_SIZE)]

\* C29: the ring buffer of kernel/keyboard.c is a lossless first-in-first-out
\* queue while it is not full: the unread bytes are the characters the
\* handler stored and no call has returned yet, in the order they were
\* stored, every keyboard_getchar call returns the oldest of them and takes
\* it out, and a key that arrives while 256 characters are buffered is
\* dropped, the buffer and its counters staying as they are.
C29_FifoAndDropWhenFull ==
  [][ (ctx = "keyboard" /\ kbd_driver = "kernel/keyboard.c")
        => /\ Unread = kbd_pending
           /\ Unread' = kbd_pending'
           /\ buffer_start' # buffer_start
              => /\ kbd_pending # << >>
                 /\ getchar_ret' = Head(kbd_pending)
                 /\ kbd_pending' = Tail(kbd_pending)
           /\ (presses' # presses /\ buffer_size = KEYBOARD_BUFFER_SIZE)
              => /\ keyboard_buffer' = keyboard_buffer
                 /\ <<buffer_start', buffer_end', buffer_size'>>
                      = <<buffer_start, buffer_end, buffer_size>>
           /\ (presses' # presses /\ buffer_size < KEYBOARD_BUFFER_SIZE)
              => \/ kbd_pending' = kbd_pending
                 \/ \E c \in {97, 115} : kbd_pending' = Append(kbd_pending, c)
    ]_vars

\* C29 witness: 255 characters were waiting, one of two keys was stored and
\* filled the buffer, the other was not stored, and keyboard_getchar
\* returned the oldest character
C29_Witness ==
  /\ kbd_driver = "kernel/keyboard.c"
  /\ presses = 2
  /\ buffer_size = KEYBOARD_BUFFER_SIZE - 1
  /\ buffer_start = 251
  /\ getchar_ret = TypedChar(250)
  /\ pc = "k_idle"

\* the drivers whose keyboard_handler sends the EOI itself
EoiDrivers == {"unnamed/part_009", "unnamed/part_005"}

\* C30: every invocation of the keyboard interrupt handler has sent an EOI
\* to the PIC by the time it returns, on every path: debounce rejection,
\* modifier key, buffer above the threshold, unmapped scancode and normal
\* store.
C30_HandlerAlwaysSendsEoi ==
  [][ (ctx = "keyboard" /\ kbd_driver \in EoiDrivers /\ presses' # presses)
        => ~pic_in_service'
    ]_vars

=============================================================================
